---- MODULE Spec2Model ----
(***************************************************************************)
(* A model of the rtsper topic engine (pkg/topic/topic.go): the Manager    *)
(* with its topic map and publisher counter, the per-topic publisher slot, *)
(* subscriber set, inbound channel, closed flag and grace timer, the       *)
(* per-topic dispatcher goroutine and the PublishPacket callers.           *)
(*                                                                         *)
(* Granularity.  Every Manager method holds m.mu for its whole body and    *)
(* takes the topic's t.mu at most once, so it is one action, enabled when  *)
(* m.mu is free and no dispatcher holds t.mu.RLock.  Shutdown holds m.mu   *)
(* while it closes the topics one by one.  The grace timer is two steps:   *)
(* the runtime starts the AfterFunc goroutine (TimerFire), and that        *)
(* goroutine later runs Topic.Close (TimerClose); Timer.Stop only prevents *)
(* the first.  Close is idempotent and closed is never reset, so of the    *)
(* started goroutines of a topic only the first to run changes anything:   *)
(* one flag per topic stands for them.  PublishPacket and the dispatcher work on channels without   *)
(* a lock around the whole select cascade, so each select is one step.     *)
(*                                                                         *)
(* Sessions.  NewPublisherSession / NewSubscriberSession make a fresh      *)
(* object for every registration (server.go OnAnnounce, OnPlay) and only   *)
(* the topic refers to it, so an object a topic drops is garbage.  The     *)
(* model allocates the first object no topic refers to.  Session ids are   *)
(* the objects' identities (distinct sessions have distinct ids).          *)
(***************************************************************************)
EXTENDS Integers, Sequences, FiniteSets, TLC

\* ---- configuration of the checked instance, and bounds ----
MaxPublishersRange == 2
MaxSubscribersPerTopic == 2
PublisherQueueSize == 1
SubscriberQueueSize == 2    \* the queueSize given to NewSubscriberSession (server.go: subscriberQSz)
MaxPackets == 3

Names == {"a", "b"}
PubObjs == <<"p1", "p2", "p3">>
SubObjs == <<"s1", "s2", "s3">>
Callers == {"c1", "c2"}
None == "none"
NoPkt == 0

Range(f) == {f[i] : i \in DOMAIN f}
Pubs == Range(PubObjs)
Subs == Range(SubObjs)

VARIABLES
  maxPublishers,   \* Manager.cfg.MaxPublishers
  topics,          \* Manager.topics: the names present in the map
  publisherCount,  \* Manager.publisherCount
  publisher,       \* Topic.publisher, per name (None = nil)
  stream,          \* Topic.stream # nil, per name
  subscribers,     \* Topic.subscribers, per name (the ids in the map)
  inCh,            \* Topic.in: the buffered channel's content, per name
  closed,          \* Topic.closed (close(t.in) is done in the same step)
  graceTimer,      \* Topic.graceTimer: "nil", "armed" or "fired", per name
  firing,          \* an AfterFunc goroutine has started and has not yet run Close
  pubCtx,          \* PublisherSession.ctx: the topic it is live on, None once cancelled
  subCtx,          \* SubscriberSession.ctx: the topic it is live on, None once cancelled
  queue,           \* SubscriberSession.queue, per session
  disp,            \* the dispatcher goroutine of each topic
  call,            \* the PublishPacket call in flight, per caller
  shut,            \* Manager.Shutdown in progress (it holds m.mu)
  ret,             \* what the last step returned to its caller
  nextPkt,         \* the next packet a caller hands to PublishPacket
  accepted,        \* history: number of PublishPacket calls that returned true, per name
  dispatched,      \* history: packets each dispatcher received, in order
  lastOut,         \* history: the packet each session's Dequeue returned last
  packetsDropped,  \* metrics: packets_dropped_total
  panicked,        \* a goroutine panicked (send on a closed channel)
  \* pkg/cluster and the proxy listener
  hash,            \* xxhash.Sum64String, per key (node, topic)
  cluster,         \* Server.cluster of each node: the Cluster it was built with, if any
  cret,            \* what the last Cluster or proxyListener step returned or did
  scan,            \* the Owner call in flight on each Cluster, and what its loop holds
  \* pkg/udpalloc
  alloc,           \* the Allocator: start and end as NewAllocator stored them
  reserved,        \* Allocator.reserved: the reservation whose socket is stored, per port
  socks,           \* the UDP ports this process holds an open socket on
  extBound,        \* the UDP ports other processes have bound
  handles,         \* the release closures ReservePair has returned, and which were invoked
  nextRes,         \* the number of the next successful reservation
  aret,            \* what the last Allocator step returned
  reservedPairs,   \* metrics: the allocator_reserved_pairs gauge
  \* pkg/metrics
  activePublishers,      \* metrics: the active_publishers gauge
  activeSubscribers,     \* metrics: the active_subscribers gauge
  forwardFailed,         \* metrics: forward_failed_total
  forwardedConnections,  \* metrics: forwarded_connections_total
  \* the connections a proxyListener has taken from its listener
  conn,
  \* serverHandler (the RTSP router)
  sessTopic,       \* serverHandler.sessTopic: the entries of the map
  sessIsPub,       \* serverHandler.sessIsPub: the entries of the map
  rpc,             \* the handler each RTSP session is in, and what it holds
  rret             \* the response the last handler returned

topicVars == <<maxPublishers, topics, publisherCount, publisher, stream, subscribers, inCh, closed,
          graceTimer, firing, pubCtx, subCtx, queue, disp, call, shut, ret,
          nextPkt, accepted, dispatched, lastOut, packetsDropped, panicked>>
clusterVars == <<hash, cluster, cret, scan>>
allocVars == <<alloc, reserved, socks, extBound, handles, nextRes, aret, reservedPairs>>
metricVars == <<activePublishers, activeSubscribers, forwardFailed, forwardedConnections>>
proxyVars == <<conn>>
routerVars == <<sessTopic, sessIsPub, rpc, rret>>
nonTopicVars == <<clusterVars, allocVars, metricVars, proxyVars, routerVars>>
nonClusterVars == <<topicVars, allocVars, metricVars, proxyVars, routerVars>>
nonAllocVars == <<topicVars, clusterVars, metricVars, proxyVars, routerVars>>
vars == <<topicVars, clusterVars, allocVars, metricVars, proxyVars, routerVars>>

mgrVars == <<maxPublishers, topics, publisherCount>>
timerVars == <<graceTimer, firing>>
subSessVars == <<subCtx, queue, lastOut>>
pktVars == <<inCh, disp, call, nextPkt, accepted, dispatched, packetsDropped, panicked>>

Ret(op, name, val) == [op |-> op, name |-> name, val |-> val]
NoRet == Ret("none", None, "none")

DispIdle == [pc |-> "recv", pkt |-> NoPkt, todo |-> {}, cur |-> None]
CallIdle == [pc |-> "idle", name |-> None, pkt |-> NoPkt]

\* t.mu is read-locked by the topic's dispatcher while it fans one packet out
RLocked(n) == disp[n].pc \in {"send", "drop", "resend"}
\* m.mu is free
MgrFree == ~shut.active /\ ~panicked

\* NewManager(cfg): an empty manager
NewManager ==
  /\ maxPublishers \in 1..MaxPublishersRange
  /\ topics = {}
  /\ publisherCount = 0
  /\ publisher = [n \in Names |-> None]
  /\ stream = [n \in Names |-> FALSE]
  /\ subscribers = [n \in Names |-> {}]
  /\ inCh = [n \in Names |-> <<>>]
  /\ closed = [n \in Names |-> FALSE]
  /\ graceTimer = [n \in Names |-> "nil"]
  /\ firing = [n \in Names |-> FALSE]
  /\ pubCtx = [p \in Pubs |-> None]
  /\ subCtx = [s \in Subs |-> None]
  /\ queue = [s \in Subs |-> <<>>]
  /\ disp = [n \in Names |-> DispIdle]
  /\ call = [c \in Callers |-> CallIdle]
  /\ shut = [active |-> FALSE, todo |-> {}]
  /\ ret = NoRet
  /\ nextPkt = 1
  /\ accepted = [n \in Names |-> 0]
  /\ dispatched = [n \in Names |-> <<>>]
  /\ lastOut = [s \in Subs |-> NoPkt]
  /\ packetsDropped = 0
  /\ panicked = FALSE

\* ---- sessions ----

FreePub(p) == \A n \in Names : publisher[n] # p
FreeSub(s) == \A n \in Names : s \notin subscribers[n]

\* NewPublisherSession / NewSubscriberSession: the first object not in use
FirstFree(objs, free) ==
  LET idx == {i \in DOMAIN objs : objs[i] \in free}
  IN IF idx = {} THEN None ELSE objs[CHOOSE i \in idx : \A j \in idx : i <= j]
NewPublisherSession == FirstFree(PubObjs, {p \in Pubs : FreePub(p)})
NewSubscriberSession(objs) == FirstFree(objs, {s \in Subs : FreeSub(s)})

\* cancel(): the contexts after the sessions in ps have been cancelled
Cancel(ctx, ps) == [x \in DOMAIN ctx |-> IF x \in ps THEN None ELSE ctx[x]]

\* ---- Manager.RegisterPublisher, Topic.SetPublisher ----

HasPublisher(n) == publisher[n] # None

\* Topic.SetPublisher: the grace timer after the call (Stop, then nil)
SetPublisherTimer(n) == [graceTimer EXCEPT ![n] = "nil"]

\* mutant: the per-topic check is missing
RegisterPublisherResult_NoSlotCheck(n) ==
  IF publisherCount >= maxPublishers THEN "ErrMaxPublishers" ELSE "ok"

\* mutant: the per-topic check comes before the global cap
RegisterPublisherResult_SlotFirst(n) ==
  IF n \in topics /\ HasPublisher(n) THEN "ErrTopicHasPublisher"
  ELSE IF publisherCount >= maxPublishers THEN "ErrMaxPublishers"
  ELSE "ok"

\* Manager.RegisterPublisher's admission decision
RegisterPublisherResult(n) ==
  IF publisherCount >= maxPublishers THEN "ErrMaxPublishers"
  ELSE IF n \in topics /\ HasPublisher(n) THEN "ErrTopicHasPublisher"
  ELSE "ok"

\* Manager.RegisterPublisher, as any caller runs it
ManagerRegisterPublisher(n, p) ==
  /\ MgrFree /\ ~RLocked(n)
  /\ p # None
  /\ LET r == RegisterPublisherResult(n) IN
     /\ ret' = Ret("RegisterPublisher", n, r)
     /\ IF r = "ok"
        THEN /\ topics' = topics \cup {n}
             /\ UNCHANGED maxPublishers
             /\ publisher' = [publisher EXCEPT ![n] = p]
             /\ graceTimer' = SetPublisherTimer(n)
             /\ publisherCount' = publisherCount + 1
             /\ pubCtx' = [pubCtx EXCEPT ![p] = n]
        ELSE UNCHANGED <<maxPublishers, topics, publisher, graceTimer, publisherCount, pubCtx>>
  /\ UNCHANGED <<stream, subscribers, closed, firing, subSessVars, pktVars, shut>>

\* a call of Manager.RegisterPublisher from outside the RTSP router
RegisterPublisher(n, p) ==
  /\ ManagerRegisterPublisher(n, p)
  /\ UNCHANGED nonTopicVars

\* ---- Manager.UnregisterPublisher, Topic.RemovePublisher ----

\* mutant: the counter is not lowered
UnregisterCount_NoDecrement(n) == publisherCount

\* the counter after Manager.UnregisterPublisher found the topic in the map
UnregisterCount(n) == IF publisherCount > 0 THEN publisherCount - 1 ELSE publisherCount

\* Topic.RemovePublisher: the grace timer after the publisher was removed
RemovePublisherTimer(n) == [graceTimer EXCEPT ![n] = "armed"]

\* Manager.UnregisterPublisher, as any caller runs it
ManagerUnregisterPublisher(n) ==
  /\ MgrFree /\ ~RLocked(n)
  /\ ret' = NoRet
  /\ IF n \in topics
     THEN /\ publisherCount' = UnregisterCount(n)
          /\ IF HasPublisher(n)
             THEN /\ pubCtx' = Cancel(pubCtx, {publisher[n]})
                  /\ publisher' = [publisher EXCEPT ![n] = None]
                  /\ stream' = [stream EXCEPT ![n] = FALSE]
                  /\ graceTimer' = RemovePublisherTimer(n)
             ELSE UNCHANGED <<pubCtx, publisher, stream, graceTimer>>
     ELSE UNCHANGED <<publisherCount, pubCtx, publisher, stream, graceTimer>>
  /\ UNCHANGED <<maxPublishers, topics, subscribers, closed, firing, subSessVars, pktVars, shut>>

\* a call of Manager.UnregisterPublisher from outside the RTSP router
UnregisterPublisher(n) ==
  /\ ManagerUnregisterPublisher(n)
  /\ UNCHANGED nonTopicVars

\* ---- Manager.SetTopicStream, Topic.SetStream ----

\* Manager.SetTopicStream, as any caller runs it
ManagerSetTopicStream(n) ==
  /\ MgrFree /\ ~RLocked(n)
  /\ n \in topics
  /\ stream' = [stream EXCEPT ![n] = TRUE]
  /\ ret' = NoRet
  /\ UNCHANGED <<mgrVars, publisher, subscribers, closed, timerVars, pubCtx, subSessVars,
                 pktVars, shut>>

\* a call of Manager.SetTopicStream from outside the RTSP router
SetTopicStream(n) ==
  /\ ManagerSetTopicStream(n)
  /\ UNCHANGED nonTopicVars

\* ---- Manager.RegisterSubscriber, Topic.AddSubscriber ----

\* mutant: the cap is compared with > instead of >=
RegisterSubscriberResult_OffByOne(n) ==
  IF n \notin topics THEN "ErrNoActivePublisher"
  ELSE IF Cardinality(subscribers[n]) > MaxSubscribersPerTopic THEN "ErrTopicMaxSubscribers"
  ELSE "ok"

\* mutant: a topic without a publisher counts as absent
RegisterSubscriberResult_NeedsPublisher(n) ==
  IF n \notin topics \/ ~HasPublisher(n) THEN "ErrNoActivePublisher"
  ELSE IF Cardinality(subscribers[n]) >= MaxSubscribersPerTopic THEN "ErrTopicMaxSubscribers"
  ELSE "ok"

\* Manager.RegisterSubscriber's admission decision
RegisterSubscriberResult(n) ==
  IF n \notin topics THEN "ErrNoActivePublisher"
  ELSE IF Cardinality(subscribers[n]) >= MaxSubscribersPerTopic THEN "ErrTopicMaxSubscribers"
  ELSE "ok"

\* Manager.RegisterSubscriber, as any caller runs it
ManagerRegisterSubscriber(n, s) ==
  /\ MgrFree /\ ~RLocked(n)
  /\ s # None
  /\ LET r == RegisterSubscriberResult(n) IN
     /\ ret' = Ret("RegisterSubscriber", n, r)
     /\ IF r = "ok"
        THEN /\ subscribers' = [subscribers EXCEPT ![n] = @ \cup {s}]
             /\ subCtx' = [subCtx EXCEPT ![s] = n]
             /\ queue' = [queue EXCEPT ![s] = <<>>]
             /\ lastOut' = [lastOut EXCEPT ![s] = NoPkt]
        ELSE UNCHANGED <<subscribers, subSessVars>>
  /\ UNCHANGED <<mgrVars, publisher, stream, closed, timerVars, pubCtx, pktVars, shut>>

\* a call of Manager.RegisterSubscriber from outside the RTSP router
RegisterSubscriber(n, s) ==
  /\ ManagerRegisterSubscriber(n, s)
  /\ UNCHANGED nonTopicVars

\* ---- Manager.UnregisterSubscriber, Topic.RemoveSubscriber ----

\* the sessions' queues once the topic has dropped the sessions in ss
Drop(q, ss) == [x \in DOMAIN q |-> IF x \in ss THEN <<>> ELSE q[x]]

\* Manager.UnregisterSubscriber, as any caller runs it
ManagerUnregisterSubscriber(n, s) ==
  /\ MgrFree /\ ~RLocked(n)
  /\ ret' = NoRet
  /\ IF n \in topics /\ s \in subscribers[n]
     THEN /\ subCtx' = Cancel(subCtx, {s})
          /\ subscribers' = [subscribers EXCEPT ![n] = @ \ {s}]
          /\ queue' = Drop(queue, {s})
          /\ lastOut' = [lastOut EXCEPT ![s] = NoPkt]
     ELSE UNCHANGED <<subscribers, subSessVars>>
  /\ UNCHANGED <<mgrVars, publisher, stream, closed, timerVars, pubCtx, pktVars, shut>>

\* a call of Manager.UnregisterSubscriber from outside the RTSP router
UnregisterSubscriber(n, s) ==
  /\ ManagerUnregisterSubscriber(n, s)
  /\ UNCHANGED nonTopicVars

\* ---- Topic.Close ----

\* the sessions whose cancel function Close calls
CloseCancelsSubs(n) == subscribers[n]
CloseCancelsPub(n) == IF HasPublisher(n) THEN {publisher[n]} ELSE {}

\* mutant: Close does not look at t.closed
Close_Unguarded(n) ==
  /\ closed' = [closed EXCEPT ![n] = TRUE]
  /\ pubCtx' = Cancel(pubCtx, CloseCancelsPub(n))
  /\ subCtx' = Cancel(subCtx, CloseCancelsSubs(n))
  /\ subscribers' = [subscribers EXCEPT ![n] = {}]
  /\ queue' = Drop(queue, subscribers[n])
  /\ lastOut' = [x \in Subs |-> IF x \in subscribers[n] THEN NoPkt ELSE lastOut[x]]

\* Topic.Close on topic n: the topic's part of the next state
Close(n) ==
  IF closed[n]
  THEN UNCHANGED <<closed, pubCtx, subscribers, subSessVars>>
  ELSE /\ closed' = [closed EXCEPT ![n] = TRUE]
       /\ pubCtx' = Cancel(pubCtx, CloseCancelsPub(n))
       /\ subCtx' = Cancel(subCtx, CloseCancelsSubs(n))
       /\ subscribers' = [subscribers EXCEPT ![n] = {}]
       /\ queue' = Drop(queue, subscribers[n])
       /\ lastOut' = [x \in Subs |-> IF x \in subscribers[n] THEN NoPkt ELSE lastOut[x]]

\* ---- the grace timer (time.AfterFunc in Topic.RemovePublisher) ----

\* the grace period has elapsed: the runtime starts the goroutine running t.Close
TimerFire(n) ==
  /\ ~panicked
  /\ graceTimer[n] = "armed"
  /\ graceTimer' = [graceTimer EXCEPT ![n] = "fired"]
  /\ firing' = [firing EXCEPT ![n] = TRUE]
  /\ ret' = NoRet
  /\ UNCHANGED <<mgrVars, publisher, stream, subscribers, closed, pubCtx, subSessVars, pktVars, shut>>
  /\ UNCHANGED nonTopicVars

\* the timer's goroutine runs t.Close (it takes t.mu, never m.mu)
TimerClose(n) ==
  /\ ~panicked
  /\ firing[n]
  /\ ~RLocked(n)
  /\ firing' = [firing EXCEPT ![n] = FALSE]
  /\ Close(n)
  /\ ret' = NoRet
  /\ UNCHANGED <<mgrVars, publisher, stream, graceTimer, pktVars, shut>>
  /\ UNCHANGED nonTopicVars

\* ---- Manager.Shutdown ----

ShutdownBegin ==
  /\ MgrFree
  /\ shut' = [active |-> TRUE, todo |-> topics]
  /\ ret' = NoRet
  /\ UNCHANGED <<mgrVars, publisher, stream, subscribers, closed, timerVars, pubCtx, subSessVars, pktVars>>
  /\ UNCHANGED nonTopicVars

ShutdownClose(n) ==
  /\ ~panicked
  /\ shut.active /\ n \in shut.todo
  /\ ~RLocked(n)
  /\ Close(n)
  /\ shut' = [shut EXCEPT !.todo = @ \ {n}]
  /\ ret' = NoRet
  /\ UNCHANGED <<mgrVars, publisher, stream, timerVars, pktVars>>
  /\ UNCHANGED nonTopicVars

ShutdownEnd ==
  /\ ~panicked
  /\ shut.active /\ shut.todo = {}
  /\ shut' = [active |-> FALSE, todo |-> {}]
  /\ ret' = NoRet
  /\ UNCHANGED <<mgrVars, publisher, stream, subscribers, closed, timerVars, pubCtx, subSessVars, pktVars>>
  /\ UNCHANGED nonTopicVars

\* ---- Manager.Status ----

Status ==
  [publisher_count |-> publisherCount,
   topics |-> {[name |-> n, has_publisher |-> HasPublisher(n),
                publisher_id |-> IF HasPublisher(n) THEN publisher[n] ELSE "",
                subscriber_count |-> Cardinality(subscribers[n])] : n \in topics}]

\* ---- Manager.PublishPacket ----

\* a non-blocking send on the buffered channel ch of capacity cap succeeds
CanSend(ch, cap) == Len(ch) < cap

\* the inbound channel after the drop-oldest receive (select with a default)
DropOldest(ch) == IF ch = <<>> THEN ch ELSE Tail(ch)

\* the topic lookup under m.mu.RLock and the first select
PublishPacketStart(c, n) ==
  /\ MgrFree
  /\ call[c].pc = "idle"
  /\ nextPkt <= MaxPackets
  /\ nextPkt' = nextPkt + 1
  /\ IF n \notin topics
     THEN /\ ret' = Ret("PublishPacket", n, "false")
          /\ UNCHANGED <<inCh, call, accepted, panicked>>
     ELSE IF closed[n]
     THEN /\ panicked' = TRUE
          /\ ret' = NoRet
          /\ UNCHANGED <<inCh, call, accepted>>
     ELSE IF CanSend(inCh[n], PublisherQueueSize)
     THEN /\ inCh' = [inCh EXCEPT ![n] = Append(@, nextPkt)]
          /\ accepted' = [accepted EXCEPT ![n] = @ + 1]
          /\ ret' = Ret("PublishPacket", n, "true")
          /\ UNCHANGED <<call, panicked>>
     ELSE /\ call' = [call EXCEPT ![c] = [pc |-> "drop", name |-> n, pkt |-> nextPkt]]
          /\ ret' = NoRet
          /\ UNCHANGED <<inCh, accepted, panicked>>
  /\ UNCHANGED <<mgrVars, publisher, stream, subscribers, closed, timerVars, pubCtx, subSessVars,
                 disp, dispatched, packetsDropped, shut>>
  /\ UNCHANGED nonTopicVars

\* the second select: drop the oldest element, if any
PublishPacketDrop(c) ==
  /\ ~panicked
  /\ call[c].pc = "drop"
  /\ inCh' = [inCh EXCEPT ![call[c].name] = DropOldest(@)]
  /\ call' = [call EXCEPT ![c].pc = "retry"]
  /\ ret' = NoRet
  /\ UNCHANGED <<mgrVars, publisher, stream, subscribers, closed, timerVars, pubCtx, subSessVars,
                 disp, nextPkt, accepted, dispatched, packetsDropped, panicked, shut>>
  /\ UNCHANGED nonTopicVars

\* mutant: the retry is a plain send, which waits for room
PublishPacketRetry_Blocking(c) ==
  /\ ~panicked
  /\ call[c].pc = "retry"
  /\ LET n == call[c].name IN
     IF closed[n]
     THEN /\ panicked' = TRUE
          /\ ret' = NoRet
          /\ UNCHANGED <<inCh, call, accepted>>
     ELSE /\ CanSend(inCh[n], PublisherQueueSize)
          /\ call' = [call EXCEPT ![c] = CallIdle]
          /\ inCh' = [inCh EXCEPT ![n] = Append(@, call[c].pkt)]
          /\ accepted' = [accepted EXCEPT ![n] = @ + 1]
          /\ ret' = Ret("PublishPacket", n, "true")
          /\ UNCHANGED panicked
  /\ UNCHANGED <<mgrVars, publisher, stream, subscribers, closed, timerVars, pubCtx, subSessVars,
                 disp, nextPkt, dispatched, packetsDropped, shut>>
  /\ UNCHANGED nonTopicVars

\* the third select: retry the send once
PublishPacketRetry(c) ==
  /\ ~panicked
  /\ call[c].pc = "retry"
  /\ LET n == call[c].name IN
     IF closed[n]
     THEN /\ panicked' = TRUE
          /\ ret' = NoRet
          /\ UNCHANGED <<inCh, call, accepted>>
     ELSE /\ call' = [call EXCEPT ![c] = CallIdle]
          /\ IF CanSend(inCh[n], PublisherQueueSize)
             THEN /\ inCh' = [inCh EXCEPT ![n] = Append(@, call[c].pkt)]
                  /\ accepted' = [accepted EXCEPT ![n] = @ + 1]
                  /\ ret' = Ret("PublishPacket", n, "true")
             ELSE /\ ret' = Ret("PublishPacket", n, "false")
                  /\ UNCHANGED <<inCh, accepted>>
          /\ UNCHANGED panicked
  /\ UNCHANGED <<mgrVars, publisher, stream, subscribers, closed, timerVars, pubCtx, subSessVars,
                 disp, nextPkt, dispatched, packetsDropped, shut>>
  /\ UNCHANGED nonTopicVars

\* ---- Topic.dispatcher ----

\* the dispatcher's state once it is done with one subscriber of its range loop
DispAdvance(d, s) ==
  LET rest == d.todo \ {s}
  IN IF rest = {} THEN DispIdle ELSE [pc |-> "send", pkt |-> d.pkt, todo |-> rest, cur |-> None]

\* mutant: the packet is put at the head of the queue
Enqueue_AtFront(q, pkt) == <<pkt>> \o q

\* a subscriber's queue after the dispatcher's send of pkt succeeded
Enqueue(q, pkt) == Append(q, pkt)

\* for pkt := range t.in, then t.mu.RLock and the start of the range over subscribers
DispatcherRecv(n) ==
  /\ ~panicked
  /\ n \in topics
  /\ disp[n].pc = "recv"
  /\ inCh[n] # <<>>
  /\ inCh' = [inCh EXCEPT ![n] = Tail(@)]
  /\ dispatched' = [dispatched EXCEPT ![n] = Append(@, Head(inCh[n]))]
  /\ disp' = [disp EXCEPT ![n] =
                IF subscribers[n] = {} THEN DispIdle
                ELSE [pc |-> "send", pkt |-> Head(inCh[n]), todo |-> subscribers[n], cur |-> None]]
  /\ ret' = NoRet
  /\ UNCHANGED <<mgrVars, publisher, stream, subscribers, closed, timerVars, pubCtx, subSessVars,
                 call, nextPkt, accepted, packetsDropped, panicked, shut>>
  /\ UNCHANGED nonTopicVars

\* the range over t.in ends: the channel is closed and drained
DispatcherExit(n) ==
  /\ ~panicked
  /\ n \in topics
  /\ disp[n].pc = "recv"
  /\ inCh[n] = <<>> /\ closed[n]
  /\ disp' = [disp EXCEPT ![n].pc = "exited"]
  /\ ret' = NoRet
  /\ UNCHANGED <<mgrVars, publisher, stream, subscribers, closed, timerVars, pubCtx, subSessVars,
                 inCh, call, nextPkt, accepted, dispatched, packetsDropped, panicked, shut>>
  /\ UNCHANGED nonTopicVars

\* mutant: the send to the subscriber is a plain send, which waits for room
DispatcherSend_Blocking(n, s) ==
  /\ ~panicked
  /\ disp[n].pc = "send"
  /\ s \in disp[n].todo
  /\ CanSend(queue[s], SubscriberQueueSize)
  /\ queue' = [queue EXCEPT ![s] = Enqueue(@, disp[n].pkt)]
  /\ disp' = [disp EXCEPT ![n] = DispAdvance(@, s)]
  /\ ret' = NoRet
  /\ UNCHANGED <<mgrVars, publisher, stream, subscribers, closed, timerVars, pubCtx, subCtx,
                 lastOut, inCh, call, nextPkt, accepted, dispatched, packetsDropped, panicked, shut>>
  /\ UNCHANGED nonTopicVars

\* the first select on subscriber s (the map's iteration order is arbitrary)
DispatcherSend(n, s) ==
  /\ ~panicked
  /\ disp[n].pc = "send"
  /\ s \in disp[n].todo
  /\ IF CanSend(queue[s], SubscriberQueueSize)
     THEN /\ queue' = [queue EXCEPT ![s] = Enqueue(@, disp[n].pkt)]
          /\ disp' = [disp EXCEPT ![n] = DispAdvance(@, s)]
     ELSE /\ disp' = [disp EXCEPT ![n].pc = "drop", ![n].cur = s]
          /\ UNCHANGED queue
  /\ ret' = NoRet
  /\ UNCHANGED <<mgrVars, publisher, stream, subscribers, closed, timerVars, pubCtx, subCtx,
                 lastOut, inCh, call, nextPkt, accepted, dispatched, packetsDropped, panicked, shut>>
  /\ UNCHANGED nonTopicVars

\* the second select: drop the oldest element of the subscriber's queue, if any
DispatcherDrop(n) ==
  /\ ~panicked
  /\ disp[n].pc = "drop"
  /\ queue' = [queue EXCEPT ![disp[n].cur] = DropOldest(@)]
  /\ disp' = [disp EXCEPT ![n].pc = "resend"]
  /\ ret' = NoRet
  /\ UNCHANGED <<mgrVars, publisher, stream, subscribers, closed, timerVars, pubCtx, subCtx, lastOut,
                 inCh, call, nextPkt, accepted, dispatched, packetsDropped, panicked, shut>>
  /\ UNCHANGED nonTopicVars

\* the third select: push once more; a failure is silent
DispatcherResend(n) ==
  /\ ~panicked
  /\ disp[n].pc = "resend"
  /\ LET s == disp[n].cur IN
     /\ IF CanSend(queue[s], SubscriberQueueSize)
        THEN queue' = [queue EXCEPT ![s] = Enqueue(@, disp[n].pkt)]
        ELSE UNCHANGED queue
     /\ disp' = [disp EXCEPT ![n] = DispAdvance(@, s)]
  /\ ret' = NoRet
  /\ UNCHANGED <<mgrVars, publisher, stream, subscribers, closed, timerVars, pubCtx, subCtx,
                 lastOut, inCh, call, nextPkt, accepted, dispatched, packetsDropped, panicked, shut>>
  /\ UNCHANGED nonTopicVars

\* ---- SubscriberSession.Dequeue (the session's writer) ----
Dequeue(s) ==
  /\ ~panicked
  /\ ~FreeSub(s)
  /\ queue[s] # <<>>
  /\ queue' = [queue EXCEPT ![s] = Tail(@)]
  /\ lastOut' = [lastOut EXCEPT ![s] = Head(queue[s])]
  /\ ret' = NoRet
  /\ UNCHANGED <<mgrVars, publisher, stream, subscribers, closed, timerVars, pubCtx, subCtx,
                 pktVars, shut>>
  /\ UNCHANGED nonTopicVars

\* ---- pkg/cluster: Cluster ----

\* the nodes whose Cluster instance and proxy listeners are followed
Inst == {"x", "y"}
NodeNames == {"n1", "n2", "n3"}
MaxScore == 1
\* the hash values; two keys may have the same one
Scores == 0..MaxScore
HashTopics == {"a"}
HashKeys == NodeNames \X HashTopics
\* the topics a proxy listener may look up: an unparsed request line gives ""
PeekTopics == HashTopics \cup {""}
PeekKeys == NodeNames \X PeekTopics
\* the empty name
NoNode == ""

\* the node lists NewFromCSV keeps: the entries of the list, in its order
NodeLists ==
  {l \in UNION {[1..k -> NodeNames] : k \in 1..Cardinality(NodeNames)} :
     \A a, b \in DOMAIN l : a # b => l[a] # l[b]}

\* no cluster configured (Server.cluster == nil)
NilCluster == [present |-> FALSE, nodes |-> <<>>, self |-> NoNode, draining |-> {}]

NewFromCSV(nodeList, self) ==
  IF nodeList = <<>> THEN NilCluster
  ELSE [present |-> TRUE, nodes |-> nodeList,
        self |-> IF self = NoNode THEN nodeList[1] ELSE self,
        draining |-> {}]

\* Cluster.nodeSet
Members(c) == Range(c.nodes)

\* the loop of Cluster.Owner from list position i on
RECURSIVE OwnerScan(_, _, _, _, _)
OwnerScan(c, t, i, best, bestScore) ==
  IF i > Len(c.nodes) THEN best
  ELSE IF c.nodes[i] \in c.draining THEN OwnerScan(c, t, i + 1, best, bestScore)
  ELSE IF best = NoNode \/ hash[<<c.nodes[i], t>>] > bestScore
       THEN OwnerScan(c, t, i + 1, c.nodes[i], hash[<<c.nodes[i], t>>])
       ELSE OwnerScan(c, t, i + 1, best, bestScore)

\* mutant: the draining flags are not looked at
Owner_IgnoresDraining(c, t) == OwnerScan([c EXCEPT !.draining = {}], t, 1, NoNode, 0)

Owner(c, t) == OwnerScan(c, t, 1, NoNode, 0)

\* mutant: every node takes the first node of the list for itself
IsSelf_FirstNode(c, node) == node = c.nodes[1]

IsSelf(c, node) == node = c.self

\* mutant: a draining flag is never cleared
DrainingAfter_Sticky(c, node, d) ==
  IF node \in Members(c) /\ d THEN c.draining \cup {node} ELSE c.draining

\* the nodes whose draining flag is true after SetDraining(node, d)
DrainingAfter(c, node, d) ==
  IF node \in Members(c)
  THEN IF d THEN c.draining \cup {node} ELSE c.draining \ {node}
  ELSE c.draining

CRet(op, i, t, node, val, prev, dir, port) ==
  [op |-> op, inst |-> i, topic |-> t, node |-> node, val |-> val, prev |-> prev,
   dir |-> dir, port |-> port]
NoCRet == CRet("none", None, "", NoNode, "", {}, "", "")

\* no Owner call is in flight
NoScan == [pc |-> "idle", topic |-> "", pos |-> 0, best |-> NoNode, bestScore |-> 0, raced |-> FALSE]

\* SetDraining writes c.draining[node] without a lock: a loop of Owner that is
\* under way on the same Cluster has raced with the write
ScanAfterWrite(sc, c, node) ==
  IF sc.pc = "loop" /\ node \in Members(c) THEN [sc EXCEPT !.raced = TRUE] ELSE sc

SetDraining(i, node, d) ==
  /\ cluster[i].present
  /\ cluster' = [cluster EXCEPT ![i].draining = DrainingAfter(cluster[i], node, d)]
  /\ cret' = CRet("SetDraining", i, "", node, IF d THEN "true" ELSE "false",
                  cluster[i].draining, "", "")
  /\ scan' = [scan EXCEPT ![i] = ScanAfterWrite(scan[i], cluster[i], node)]
  /\ UNCHANGED <<hash, nonClusterVars>>

\* a call of Cluster.Owner that no SetDraining overlaps
OwnerCall(i, t) ==
  /\ cluster[i].present
  /\ scan[i].pc = "idle"
  /\ cret' = CRet("Owner", i, t, Owner(cluster[i], t), "", {}, "", "")
  /\ UNCHANGED <<hash, cluster, scan, nonClusterVars>>

\* a call of Cluster.Owner, one loop iteration at a time; Cluster has no
\* mutex, so nothing keeps SetDraining from running between two iterations
OwnerBegin(i, t) ==
  /\ cluster[i].present
  /\ scan[i].pc = "idle"
  /\ scan' = [scan EXCEPT ![i] = [pc |-> "loop", topic |-> t, pos |-> 1, best |-> NoNode,
                                   bestScore |-> 0, raced |-> FALSE]]
  /\ UNCHANGED <<hash, cluster, cret, nonClusterVars>>

\* what a read of c.draining[n] may return: the flag, or either value once a
\* write has raced with the loop
DrainingReads(sc, c, n) == IF sc.raced THEN BOOLEAN ELSE {n \in c.draining}

\* one iteration of the loop of Owner
OwnerLoop(i) ==
  /\ scan[i].pc = "loop" /\ scan[i].pos <= Len(cluster[i].nodes)
  /\ LET sc == scan[i]
         n == cluster[i].nodes[sc.pos]
     IN \E d \in DrainingReads(sc, cluster[i], n) :
          scan' = [scan EXCEPT ![i] =
                     IF ~d /\ (sc.best = NoNode \/ hash[<<n, sc.topic>>] > sc.bestScore)
                     THEN [sc EXCEPT !.pos = @ + 1, !.best = n, !.bestScore = hash[<<n, sc.topic>>]]
                     ELSE [sc EXCEPT !.pos = @ + 1]]
  /\ UNCHANGED <<hash, cluster, cret, nonClusterVars>>

\* return best
OwnerReturn(i) ==
  /\ scan[i].pc = "loop" /\ scan[i].pos > Len(cluster[i].nodes)
  /\ cret' = CRet("OwnerReturn", i, scan[i].topic, scan[i].best, "", {}, "", "")
  /\ scan' = [scan EXCEPT ![i] = NoScan]
  /\ UNCHANGED <<hash, cluster, nonClusterVars>>

\* the runtime finds the map read and the map write running together and ends
\* the process ("fatal error: concurrent map read and map write")
OwnerFatal(i) ==
  /\ scan[i].pc = "loop" /\ scan[i].raced
  /\ scan' = [scan EXCEPT ![i] = [scan[i] EXCEPT !.pc = "fatal"]]
  /\ UNCHANGED <<hash, cluster, cret, nonClusterVars>>

\* ---- strings ----

\* mutant: every leading "/" is stripped
RECURSIVE TrimPrefix_AllSlashes(_)
TrimPrefix_AllSlashes(path) ==
  IF path # <<>> /\ Head(path) = "/" THEN TrimPrefix_AllSlashes(Tail(path)) ELSE path

\* strings.TrimPrefix(ctx.Path, "/")
TrimPrefix(path) == IF path # <<>> /\ Head(path) = "/" THEN Tail(path) ELSE path

\* the characters as the string the Manager's map is keyed by
RECURSIVE Str(_)
Str(cs) == IF cs = <<>> THEN "" ELSE Head(cs) \o Str(Tail(cs))

\* ---- proxyListener.Accept ----

Dirs == {"pub", "sub"}
\* Server.pubPort, Server.subPort
PubPort == "pubPort"
SubPort == "subPort"

\* mutant: the publisher port is dialled for both directions
DialPort_AlwaysPub(dir) == PubPort

\* the port the proxy dials on the owner
DialPort(dir) == IF dir = "pub" THEN PubPort ELSE SubPort

\* the client's bytes, in pieces: the text of a request line ("Ra", "Rp", "R1",
\* "R%"), the text of a header line ("H"), "n" for "\r\n", "B" for bytes without
\* a line end, "c" for bytes the client sends later
Rtsp == "rtsp://"
ReqLines == {"Ra", "Rp", "R1", "R%"}

\* strings.SplitN(firstLine, " ", 3) of the request lines, each field as its
\* characters: "ANNOUNCE rtsp://h/a RTSP/1.0", "ANNOUNCE /a", "ANNOUNCE" and
\* "ANNOUNCE rtsp://%/a RTSP/1.0"; any other first line here is the empty one
SplitN(firstLine) ==
  CASE firstLine = "Ra" -> << <<"A">>, <<Rtsp, "h", "/", "a">>, <<"R">> >>
    [] firstLine = "Rp" -> << <<"A">>, <<"/", "a">> >>
    [] firstLine = "R1" -> << <<"A">> >>
    [] firstLine = "R%" -> << <<"A">>, <<Rtsp, "%", "/", "a">>, <<"R">> >>
    [] OTHER -> << <<>> >>

\* url.Parse(u) of a u that starts with "rtsp://": the host follows, a "%" in
\* it that begins no escape is an error, and what follows the host is the Path
UrlParse(u) ==
  IF Len(u) >= 2 /\ u[2] = "%" THEN [err |-> TRUE, Path |-> <<>>]
  ELSE [err |-> FALSE, Path |-> SubSeq(u, 3, Len(u))]

\* strings.HasPrefix(u, "rtsp://")
HasPrefix(u) == u # <<>> /\ Head(u) = Rtsp

\* path := "" ... if len(parts) >= 2 { ... }
RequestPath(parts) ==
  IF Len(parts) >= 2
  THEN IF HasPrefix(parts[2])
       THEN IF UrlParse(parts[2]).err THEN <<>> ELSE UrlParse(parts[2]).Path
       ELSE parts[2]
  ELSE <<>>

\* strings.TrimSpace(string(b[:firstLineEnd]))
FirstLine(b) == IF b # <<>> /\ Head(b) # "n" THEN Head(b) ELSE ""

\* topic := strings.TrimPrefix(path, "/")
PeekTopic(b) == Str(TrimPrefix(RequestPath(SplitN(FirstLine(b)))))

\* for buf.Len() < 8192
PeekLimit == 8192

\* bytes.IndexByte(s, '\n'), counted from 1; 0 when there is none
IndexByte(s) ==
  IF \E i \in DOMAIN s : s[i] = "n"
  THEN CHOOSE i \in DOMAIN s : s[i] = "n" /\ \A j \in 1..(i - 1) : s[j] # "n"
  ELSE 0

\* bytes.HasSuffix(buf.Bytes(), []byte("\r\n\r\n"))
HasSuffix(buf) == Len(buf) >= 2 /\ buf[Len(buf)] = "n" /\ buf[Len(buf) - 1] = "n"

\* the peek loop: rbuf is what the bufio.Reader holds, reads what the next Reads
\* of nconn return before the deadline. ReadBytes hands out a line from rbuf,
\* fills rbuf by another Read when it holds none, and fails when the deadline
\* passes: the bytes it had gathered are dropped with the error. Whatever
\* rbuf holds when the loop ends goes with the Reader
RECURSIVE Peek(_, _, _)
Peek(buf, rbuf, reads) ==
  IF Len(buf) >= PeekLimit THEN [buf |-> buf, unread |-> reads]
  ELSE IF IndexByte(rbuf) > 0
  THEN LET line == SubSeq(rbuf, 1, IndexByte(rbuf))
           rest == SubSeq(rbuf, IndexByte(rbuf) + 1, Len(rbuf))
       IN IF HasSuffix(buf \o line) THEN [buf |-> buf \o line, unread |-> reads]
          ELSE Peek(buf \o line, rest, reads)
  ELSE IF reads = <<>> THEN [buf |-> buf, unread |-> <<>>]
  ELSE Peek(buf, rbuf \o Head(reads), Tail(reads))

\* the bytes of a sequence of Reads
RECURSIVE Flatten(_)
Flatten(reads) == IF reads = <<>> THEN <<>> ELSE Head(reads) \o Flatten(Tail(reads))

\* the ways the bytes s can be cut into Reads
RECURSIVE Splits(_)
Splits(s) ==
  IF s = <<>> THEN {<<>>}
  ELSE UNION {{<<SubSeq(s, 1, n)>> \o r : r \in Splits(SubSeq(s, n + 1, Len(s)))} :
                n \in 1..Len(s)}

\* the ways the bytes s can reach the proxy: early are the Reads that return
\* before the deadline of the peek, late the bytes that come after it
Arrivals(s) ==
  UNION {{[early |-> e, late |-> SubSeq(s, c + 1, Len(s))] : e \in Splits(SubSeq(s, 1, c))} :
           c \in 0..Len(s)}

\* what Accept does with a connection of which it peeked the bytes b: hand it
\* to the local server, splice it to the owner, or answer 503
AcceptOutcome(i, dir, b, dialOk) ==
  LET c == cluster[i]
      t == PeekTopic(b)
      owner == IF c.present THEN Owner(c, t) ELSE NoNode
  IN IF b = <<>> THEN CRet("Accept", i, "", NoNode, "local", {}, dir, "")
     ELSE IF owner = NoNode \/ ~c.present \/ IsSelf(c, owner)
     THEN CRet("Accept", i, t, owner, "local", {}, dir, "")
     ELSE IF dialOk
     THEN CRet("Accept", i, t, owner, "forwarded", {}, dir, DialPort(dir))
     ELSE CRet("Accept", i, t, owner, "503", {}, dir, DialPort(dir))

\* no cluster is configured on any node
NoCluster ==
  /\ hash = [k \in HashKeys |-> 0]
  /\ cluster = [i \in Inst |-> NilCluster]
  /\ cret = NoCRet
  /\ scan = [i \in Inst |-> NoScan]

\* ---- pkg/udpalloc: Allocator ----

MaxPort == 4
MaxReservations == 3
\* the UDP ports: a range that ends at MaxPort binds MaxPort + 1 too
Ports == 1..(MaxPort + 1)

NilAlloc == [present |-> FALSE, start |-> 0, end |-> 0]
ARet(op, port, res, val) == [op |-> op, port |-> port, res |-> res, val |-> val]
NoARet == ARet("none", 0, 0, "none")
NoAvailablePorts == "no available ports"

\* mutant: an odd start is kept
NewAllocator_KeepsOddStart(start, end) ==
  IF start <= 0 \/ end <= 0 \/ start > end THEN NilAlloc
  ELSE [present |-> TRUE, start |-> start, end |-> end]

NewAllocator(start, end) ==
  IF start <= 0 \/ end <= 0 \/ start > end THEN NilAlloc
  ELSE [present |-> TRUE, start |-> IF start % 2 # 0 THEN start + 1 ELSE start, end |-> end]

\* net.ListenPacket succeeds on a port nobody holds; open is what this process holds
CanBind(p, open) == p \notin extBound /\ p \notin open

\* mutant: the RTP socket is left open when the RTCP bind fails
AfterPartnerFail_Leak(open, p) == open

\* the RTCP bind failed: rtp.Close()
AfterPartnerFail(open, p) == open \ {p}

\* the loop of ReservePair from port p on: the base it returns (0: none) and the
\* sockets the process holds when it returns
RECURSIVE ReserveScan(_, _)
ReserveScan(p, open) ==
  IF p > alloc.end THEN [base |-> 0, open |-> open]
  ELSE IF reserved[p] # 0 THEN ReserveScan(p + 2, open)
  ELSE IF ~CanBind(p, open) THEN ReserveScan(p + 2, open)
  ELSE IF ~CanBind(p + 1, open \cup {p}) THEN ReserveScan(p + 2, AfterPartnerFail(open \cup {p}, p))
  ELSE [base |-> p, open |-> open \cup {p, p + 1}]

ReservePair ==
  /\ alloc.present
  /\ nextRes <= MaxReservations
  /\ LET r == ReserveScan(alloc.start, socks)
     IN  /\ socks' = r.open
         /\ IF r.base = 0
            THEN /\ aret' = ARet("ReservePair", 0, 0, NoAvailablePorts)
                 /\ UNCHANGED <<reserved, handles, nextRes, reservedPairs>>
            ELSE /\ reserved' = [reserved EXCEPT ![r.base] = nextRes, ![r.base + 1] = nextRes]
                 /\ handles' = handles \cup {[res |-> nextRes, base |-> r.base, invoked |-> FALSE]}
                 /\ nextRes' = nextRes + 1
                 /\ reservedPairs' = reservedPairs + 1
                 /\ aret' = ARet("ReservePair", r.base, nextRes, "ok")
  /\ UNCHANGED <<alloc, extBound, nonAllocVars>>

\* the release closure of handle h: it closes and deletes whatever the map holds
\* for its base port and the next one when it runs
Release(h) ==
  /\ h \in handles
  /\ reserved' = [reserved EXCEPT ![h.base] = 0, ![h.base + 1] = 0]
  /\ socks' = socks \ {q \in {h.base, h.base + 1} : reserved[q] # 0}
  /\ handles' = (handles \ {h}) \cup {[h EXCEPT !.invoked = TRUE]}
  /\ aret' = ARet("release", h.base, h.res, "ok")
  /\ UNCHANGED <<alloc, extBound, nextRes, reservedPairs, nonAllocVars>>

\* GetConn(port): the reservation whose socket the map holds, 0 when ok is false
GetConn(port) == reserved[port]

GetConnCall(port) ==
  /\ alloc.present
  /\ aret' = ARet("GetConn", port, GetConn(port), IF GetConn(port) # 0 THEN "ok" ELSE "none")
  /\ UNCHANGED <<alloc, reserved, socks, extBound, handles, nextRes, reservedPairs,
                 nonAllocVars>>

\* another process binds a free UDP port, or closes one it holds
ExtBind(p) ==
  /\ p \notin extBound /\ p \notin socks
  /\ extBound' = extBound \cup {p}
  /\ UNCHANGED <<alloc, reserved, socks, handles, nextRes, aret, reservedPairs,
                 nonAllocVars>>

ExtClose(p) ==
  /\ p \in extBound
  /\ extBound' = extBound \ {p}
  /\ UNCHANGED <<alloc, reserved, socks, handles, nextRes, aret, reservedPairs,
                 nonAllocVars>>

\* no allocator was made (UDP is not enabled)
NoAllocator ==
  /\ alloc = NilAlloc
  /\ reserved = [p \in Ports |-> 0]
  /\ socks = {}
  /\ extBound = {}
  /\ handles = {}
  /\ nextRes = 1
  /\ aret = NoARet
  /\ reservedPairs = 0

\* ---- pkg/metrics ----

\* the gauges and counters when the process starts
MetricsInit ==
  /\ activePublishers = 0
  /\ activeSubscribers = 0
  /\ forwardFailed = 0
  /\ forwardedConnections = 0

\* ---- proxyListener: the connections ----

Conns == {"k1", "k2"}
\* a connection no client has opened yet: nconn and target are the two
\* sockets, dials the dials made for it, toClient and toTarget what the proxy
\* wrote to either, up and down the two copying goroutines, cin and oin the
\* bytes that wait to be read, clientGone and ownerGone the peers' closes,
\* sent the bytes the client has sent, buf what the bufferedConn still
\* replays, got what the local server has read, hop whether the client is
\* the proxy of another node
NoConn ==
  [st |-> "none", nconn |-> "none", target |-> "none", dials |-> 0,
   toClient |-> <<>>, toTarget |-> <<>>, up |-> "none", down |-> "none",
   cin |-> <<>>, oin |-> <<>>, clientGone |-> FALSE, ownerGone |-> FALSE,
   sent |-> <<>>, buf |-> <<>>, got |-> <<>>, hop |-> FALSE]
NoConnections == conn = [k \in Conns |-> NoConn]

\* "RTSP/1.0 503 Service Unavailable\r\nServer: rtsper-proxy\r\n\r\n"
Msg503 == "503"

\* return &bufferedConn{Conn: nconn, buf: buf.Bytes()}
ConnLocal(b) == [NoConn EXCEPT !.st = "local", !.nconn = "open", !.buf = b]
\* the dial failed: the 503 is written, nconn is closed
ConnRejected ==
  [NoConn EXCEPT !.st = "rejected", !.nconn = "closed", !.dials = 1, !.toClient = <<Msg503>>]

\* the dial succeeded: b is written to the target and both goroutines start
ConnForwarded(b) ==
  [NoConn EXCEPT !.st = "forwarded", !.nconn = "open", !.target = "open", !.dials = 1,
                 !.toTarget = b, !.up = "copy", !.down = "copy"]

ConnAfter(val, b) ==
  CASE val = "local" -> ConnLocal(b)
    [] val = "503" -> ConnRejected
    [] val = "forwarded" -> ConnForwarded(b)

\* mutant: a failed dial is not counted
FailedAfter_NoCount(val) == forwardFailed

\* metrics.IncForwardFailed on a failed dial
FailedAfter(val) == IF val = "503" THEN forwardFailed + 1 ELSE forwardFailed

\* metrics.IncForwardedConnections after a successful dial
ForwardedAfter(val) ==
  IF val = "forwarded" THEN forwardedConnections + 1 ELSE forwardedConnections

\* the listener hands out the clients' connections in the order they were opened
NextConn(k) == conn[k].st = "none" /\ (k = "k2" => conn["k1"].st # "none")

\* one round of the loop of proxyListener.Accept on node i's listener for
\* direction dir: ln.Accept fails and Accept returns the error, or it yields a
\* connection, whose bytes come as arr says; the bytes no Read of the peek
\* returned wait on the socket
AcceptRound(i, k, dir, arr, lnOk, dialOk, hop) ==
  LET peek == Peek(<<>>, <<>>, arr.early)
      out == AcceptOutcome(i, dir, peek.buf, dialOk)
  IN IF ~lnOk
     THEN /\ cret' = CRet("AcceptError", None, "", NoNode, "", {}, "", "")
          /\ UNCHANGED <<conn, metricVars>>
     ELSE /\ cret' = out
          /\ conn' = [conn EXCEPT ![k] =
                        [ConnAfter(out.val, peek.buf) EXCEPT
                           !.sent = Flatten(arr.early) \o arr.late,
                           !.cin = IF out.val = "503" THEN <<>>
                                   ELSE Flatten(peek.unread) \o arr.late,
                           !.hop = hop]]
          /\ forwardFailed' = FailedAfter(out.val)
          /\ forwardedConnections' = ForwardedAfter(out.val)
          /\ UNCHANGED <<activePublishers, activeSubscribers>>

\* a client's connection
Accept(i, k, dir, arr, lnOk, dialOk) ==
  /\ NextConn(k)
  /\ AcceptRound(i, k, dir, arr, lnOk, dialOk, FALSE)
  /\ UNCHANGED <<hash, cluster, scan, topicVars, allocVars, routerVars>>

\* the connection the last round dialled reaches the listener of the node and
\* port it named: that listener's Accept peeks the bytes the proxy has written
\* to it, which come cut into Reads in some way
AcceptHop(j, k, src, reads, dialOk) ==
  /\ NextConn(k)
  /\ cret.op = "Accept" /\ cret.val = "forwarded"
  /\ conn[src].st = "forwarded" /\ ~conn[src].hop
  /\ cluster[j].present /\ cluster[j].self = cret.node
  /\ \E n \in 0..Len(conn[src].toTarget) : reads \in Splits(SubSeq(conn[src].toTarget, 1, n))
  /\ AcceptRound(j, k, cret.dir, [early |-> reads, late |-> <<>>], TRUE, dialOk, TRUE)
  /\ UNCHANGED <<hash, cluster, scan, topicVars, allocVars, routerVars>>

\* bufferedConn.Read: the local server reads what is left of buf, and the
\* socket after that
LocalRead(k) ==
  /\ conn[k].st = "local" /\ conn[k].nconn = "open"
  /\ IF conn[k].buf # <<>>
     THEN \E n \in 1..Len(conn[k].buf) :
            conn' = [conn EXCEPT ![k].got = @ \o SubSeq(conn[k].buf, 1, n),
                                 ![k].buf = SubSeq(@, n + 1, Len(@))]
     ELSE /\ conn[k].cin # <<>>
          /\ \E n \in 1..Len(conn[k].cin) :
               conn' = [conn EXCEPT ![k].got = @ \o SubSeq(conn[k].cin, 1, n),
                                    ![k].cin = SubSeq(@, n + 1, Len(@))]
  /\ UNCHANGED <<topicVars, clusterVars, allocVars, metricVars, routerVars>>

\* the two goroutines of a forwarded connection: "up" is
\* io.Copy(targetConn, nconn), "down" is io.Copy(nconn, targetConn)
Copiers == {"up", "down"}
Src(g) == IF g = "up" THEN "nconn" ELSE "target"
Dst(g) == IF g = "up" THEN "target" ELSE "nconn"
Pending(g) == IF g = "up" THEN "cin" ELSE "oin"
SrcGone(g) == IF g = "up" THEN "clientGone" ELSE "ownerGone"
DstGone(g) == IF g = "up" THEN "ownerGone" ELSE "clientGone"
Written(g) == IF g = "up" THEN "toTarget" ELSE "toClient"
Chunk(g) == IF g = "up" THEN "c" ELSE "o"

\* a Write succeeds on an open socket whose peer is there, fails on a socket
\* this process closed, and may do either once the peer has closed
WriteOutcomes(c, g) ==
  IF c[Dst(g)] # "open" THEN {FALSE}
  ELSE IF c[DstGone(g)] THEN BOOLEAN
  ELSE {TRUE}

\* mutant: the goroutine ends without closing the connections
AfterCopy_NoClose == "done"

\* where a goroutine goes on when io.Copy has returned
AfterCopy == "closeTarget"

\* io.Copy: a Read returns the waiting bytes and they are written to the other
\* side; a failed Write ends the copy
Copy(k, g) ==
  /\ conn[k][g] = "copy"
  /\ conn[k][Src(g)] = "open" /\ conn[k][Pending(g)] # <<>>
  /\ \E ok \in WriteOutcomes(conn[k], g) :
       conn' = [conn EXCEPT ![k] =
                  IF ok THEN [conn[k] EXCEPT ![Pending(g)] = <<>>,
                                             ![Written(g)] = @ \o conn[k][Pending(g)]]
                  ELSE [conn[k] EXCEPT ![Pending(g)] = <<>>, ![g] = AfterCopy]]
  /\ UNCHANGED <<topicVars, clusterVars, allocVars, metricVars, routerVars>>

\* io.Copy returns: the Read met the peer's close (EOF) or a socket this
\* process closed
CopyEnd(k, g) ==
  /\ conn[k][g] = "copy"
  /\ conn[k][Src(g)] = "closed" \/ (conn[k][SrcGone(g)] /\ conn[k][Pending(g)] = <<>>)
  /\ conn' = [conn EXCEPT ![k][g] = AfterCopy]
  /\ UNCHANGED <<topicVars, clusterVars, allocVars, metricVars, routerVars>>

\* targetConn.Close()
CloseTarget(k, g) ==
  /\ conn[k][g] = "closeTarget"
  /\ conn' = [conn EXCEPT ![k].target = "closed", ![k][g] = "closeClient"]
  /\ UNCHANGED <<topicVars, clusterVars, allocVars, metricVars, routerVars>>

\* nconn.Close(), the goroutine's last statement
CloseClient(k, g) ==
  /\ conn[k][g] = "closeClient"
  /\ conn' = [conn EXCEPT ![k].nconn = "closed", ![k][g] = "done"]
  /\ UNCHANGED <<topicVars, clusterVars, allocVars, metricVars, routerVars>>

\* the peers of a forwarded connection: g = "up" is the client, "down" the owner
PeerSend(k, g) ==
  /\ conn[k].st = "forwarded"
  /\ ~conn[k][SrcGone(g)]
  /\ Chunk(g) \notin Range(conn[k][Pending(g)]) \cup Range(conn[k][Written(g)])
  /\ conn' = [conn EXCEPT ![k][Pending(g)] = Append(@, Chunk(g)),
                          ![k].sent = IF g = "up" THEN Append(@, Chunk(g)) ELSE @]
  /\ UNCHANGED <<topicVars, clusterVars, allocVars, metricVars, routerVars>>

PeerClose(k, g) ==
  /\ conn[k].st = "forwarded"
  /\ ~conn[k][SrcGone(g)]
  /\ conn' = [conn EXCEPT ![k][SrcGone(g)] = TRUE]
  /\ UNCHANGED <<topicVars, clusterVars, allocVars, metricVars, routerVars>>

\* ---- serverHandler: the RTSP router ----

RSessions == {"r1", "r2"}
\* a Go map without entries
EmptyMap == [x \in {} |-> ""]
\* the request paths, as sequences of characters
RPaths == {<<"/", "a">>, <<"/">>, <<"/", "/", "a">>, <<"a", "!">>}
\* the characters of [A-Za-z0-9_-] that the paths use
NameChars == {"a", "A", "0", "_", "-"}
Transports == {"udp", "tcp"}

RIdle == [pc |-> "idle", path |-> <<>>, name |-> "", isPub |-> FALSE]
RRet(op, path, code, transport, mgrCall) ==
  [op |-> op, path |-> path, code |-> code, transport |-> transport, call |-> mgrCall]
NoRRet == RRet("none", <<>>, 0, "", "")

StatusOK == 200
StatusBadRequest == 400
StatusNotFound == 404
StatusServiceUnavailable == 503

\* topicNameRe.MatchString: ^[A-Za-z0-9_-]+$
MatchString(cs) == cs # <<>> /\ \A i \in DOMAIN cs : cs[i] \in NameChars

\* topicName := strings.TrimPrefix(ctx.Path, "/")
TopicName(path) == Str(TrimPrefix(path))

\* reading and writing a Go map
MapGet(m, k, zero) == IF k \in DOMAIN m THEN m[k] ELSE zero
MapPut(m, k, v) == [x \in DOMAIN m \cup {k} |-> IF x = k THEN v ELSE m[x]]
MapDelete(m, k) == [x \in DOMAIN m \ {k} |-> m[x]]

\* fmt.Sprintf("%p", ctx.Session): the subscriber id of a session
SubId(r) == IF r = "r1" THEN "s1" ELSE "s2"

\* Manager.GetTopicStream(name) # nil
GetTopicStream(n) == n \in topics /\ stream[n]

\* the library hands ANNOUNCE to the handler only on a session in its initial
\* state, and PLAY only on a session that is not recording
MayAnnounce(r) == rpc[r].pc = "idle" /\ r \notin DOMAIN sessTopic
MayPlay(r, path) ==
  /\ rpc[r].pc = "idle"
  /\ r \in DOMAIN sessTopic => (~sessIsPub[r] /\ sessTopic[r] = TopicName(path))

\* OnAnnounce up to the return of Manager.RegisterPublisher
OnAnnounce(r, path) ==
  /\ MayAnnounce(r)
  /\ IF ~MatchString(TrimPrefix(path))
     THEN /\ rret' = RRet("Announce", path, StatusBadRequest, "", "")
          /\ UNCHANGED <<topicVars, rpc>>
     ELSE /\ ManagerRegisterPublisher(TopicName(path), NewPublisherSession)
          /\ IF RegisterPublisherResult(TopicName(path)) = "ok"
             THEN /\ rpc' = [rpc EXCEPT ![r] = [pc |-> "setStream", path |-> path,
                                                name |-> TopicName(path), isPub |-> TRUE]]
                  /\ UNCHANGED rret
             ELSE /\ rret' = RRet("Announce", path, StatusBadRequest, "", "RegisterPublisher")
                  /\ UNCHANGED rpc
  /\ UNCHANGED <<sessTopic, sessIsPub, clusterVars, allocVars, metricVars, proxyVars>>

\* OnAnnounce: h.mgr.SetTopicStream(topicName, st)
OnAnnounceSetStream(r) ==
  /\ rpc[r].pc = "setStream"
  /\ ManagerSetTopicStream(rpc[r].name)
  /\ rpc' = [rpc EXCEPT ![r].pc = "store"]
  /\ UNCHANGED <<sessTopic, sessIsPub, rret, clusterVars, allocVars, metricVars, proxyVars>>

\* OnAnnounce and OnPlay: the session's entries are stored and 200 is returned
OnStore(r) ==
  /\ rpc[r].pc = "store"
  /\ sessTopic' = MapPut(sessTopic, r, rpc[r].name)
  /\ sessIsPub' = MapPut(sessIsPub, r, rpc[r].isPub)
  /\ rret' = RRet(IF rpc[r].isPub THEN "Announce" ELSE "Play", rpc[r].path, StatusOK, "",
                  IF rpc[r].isPub THEN "RegisterPublisher" ELSE "RegisterSubscriber")
  /\ rpc' = [rpc EXCEPT ![r] = RIdle]
  /\ UNCHANGED <<topicVars, clusterVars, allocVars, metricVars, proxyVars>>

\* Manager.RegisterSubscriber on a name no topic has ever had
RegisterSubscriberUnknown(n) ==
  /\ MgrFree
  /\ ret' = Ret("RegisterSubscriber", n, RegisterSubscriberResult(n))
  /\ UNCHANGED <<mgrVars, publisher, stream, subscribers, closed, timerVars, pubCtx,
                 subSessVars, pktVars, shut>>

\* OnPlay up to the return of Manager.RegisterSubscriber
OnPlay(r, path) ==
  /\ MayPlay(r, path)
  /\ IF TopicName(path) \in Names
     THEN ManagerRegisterSubscriber(TopicName(path), SubId(r))
     ELSE RegisterSubscriberUnknown(TopicName(path))
  /\ IF RegisterSubscriberResult(TopicName(path)) = "ok"
     THEN /\ rpc' = [rpc EXCEPT ![r] = [pc |-> "store", path |-> path,
                                        name |-> TopicName(path), isPub |-> FALSE]]
          /\ UNCHANGED rret
     ELSE /\ rret' = RRet("Play", path, StatusServiceUnavailable, "", "RegisterSubscriber")
          /\ UNCHANGED rpc
  /\ UNCHANGED <<sessTopic, sessIsPub, clusterVars, allocVars, metricVars, proxyVars>>

\* OnDescribe and OnSetup answer from Manager.GetTopicStream alone
StreamStatus(n) == IF GetTopicStream(n) THEN StatusOK ELSE StatusNotFound

OnDescribe(r, path) ==
  /\ rpc[r].pc = "idle" /\ MgrFree
  /\ rret' = RRet("Describe", path, StreamStatus(TopicName(path)), "", "")
  /\ UNCHANGED <<topicVars, sessTopic, sessIsPub, rpc, clusterVars, allocVars, metricVars,
                 proxyVars>>

OnSetup(r, path, transport) ==
  /\ rpc[r].pc = "idle" /\ MgrFree
  /\ rret' = RRet("Setup", path, StreamStatus(TopicName(path)), transport, "")
  /\ UNCHANGED <<topicVars, sessTopic, sessIsPub, rpc, clusterVars, allocVars, metricVars,
                 proxyVars>>

\* mutant: every closing session is unregistered as a subscriber
CloseCall_AlwaysSubscriber(isPub) == "UnregisterSubscriber"

\* OnSessionClose: the Manager call for a session with an entry
CloseCall(isPub) == IF isPub THEN "UnregisterPublisher" ELSE "UnregisterSubscriber"

\* OnSessionClose up to h.mu.Unlock, and its return when the session has no entry
OnSessionClose(r) ==
  /\ rpc[r].pc = "idle"
  /\ sessTopic' = MapDelete(sessTopic, r)
  /\ sessIsPub' = MapDelete(sessIsPub, r)
  /\ IF MapGet(sessTopic, r, "") = ""
     THEN /\ rret' = RRet("SessionClose", <<>>, 0, "", "")
          /\ UNCHANGED rpc
     ELSE /\ rpc' = [rpc EXCEPT ![r] = [pc |-> "unregister", path |-> <<>>,
                                        name |-> MapGet(sessTopic, r, ""),
                                        isPub |-> MapGet(sessIsPub, r, FALSE)]]
          /\ UNCHANGED rret
  /\ UNCHANGED <<topicVars, clusterVars, allocVars, metricVars, proxyVars>>

\* OnSessionClose: the call of the Manager
OnSessionCloseUnregister(r) ==
  /\ rpc[r].pc = "unregister"
  /\ IF CloseCall(rpc[r].isPub) = "UnregisterPublisher"
     THEN ManagerUnregisterPublisher(rpc[r].name)
     ELSE ManagerUnregisterSubscriber(rpc[r].name, SubId(r))
  /\ rret' = RRet("SessionClose", <<>>, 0, "", CloseCall(rpc[r].isPub))
  /\ rpc' = [rpc EXCEPT ![r] = RIdle]
  /\ UNCHANGED <<sessTopic, sessIsPub, clusterVars, allocVars, metricVars, proxyVars>>

\* Server.Start: the handler with its two empty maps
NewServerHandler ==
  /\ sessTopic = EmptyMap
  /\ sessIsPub = EmptyMap
  /\ rpc = [r \in RSessions |-> RIdle]
  /\ rret = NoRRet

\* the components a specification leaves at rest
RestInit == MetricsInit /\ NoConnections /\ NewServerHandler

\* ---- the specifications ----

Init == NewManager /\ NoCluster /\ NoAllocator /\ RestInit

Lifecycle(ns, objs) ==
  \/ \E n \in ns : RegisterPublisher(n, NewPublisherSession)
  \/ \E n \in ns : UnregisterPublisher(n)
  \/ \E n \in ns : RegisterSubscriber(n, NewSubscriberSession(objs))
  \/ \E n \in ns, s \in Range(objs) : UnregisterSubscriber(n, s)
  \/ \E n \in ns : TimerFire(n)
  \/ \E n \in ns : TimerClose(n)
  \/ ShutdownBegin
  \/ \E n \in ns : ShutdownClose(n)
  \/ ShutdownEnd

\* the callers that attach a ServerStream to a topic (server.go OnAnnounce)
Streams(ns) == \E n \in ns : SetTopicStream(n)

Packets(ns) ==
  \/ \E c \in Callers, n \in ns : PublishPacketStart(c, n)
  \/ \E c \in Callers : PublishPacketDrop(c)
  \/ \E c \in Callers : PublishPacketRetry(c)
  \/ \E n \in ns : DispatcherRecv(n)
  \/ \E n \in ns : DispatcherExit(n)
  \/ \E n \in ns, s \in Subs : DispatcherSend(n, s)
  \/ \E n \in ns : DispatcherDrop(n)
  \/ \E n \in ns : DispatcherResend(n)
  \/ \E s \in Subs : Dequeue(s)

\* the lifecycle of two topics, under every MaxPublishers of the range
Next == Lifecycle(Names, SubObjs)
Spec == Init /\ [][Next]_vars

\* the same, with the fairness the scheduling gives: an armed timer expires
\* once the grace period has elapsed, the goroutine it starts gets t.mu
\* (sync.RWMutex does not starve a writer, and no step of Next holds t.mu), and
\* a Shutdown that has taken m.mu runs its loop to the end and returns
Fairness ==
  /\ \A n \in Names : WF_vars(TimerFire(n)) /\ WF_vars(TimerClose(n))
  /\ \A n \in Names : WF_vars(ShutdownClose(n))
  /\ WF_vars(ShutdownEnd)
FairSpec == Spec /\ Fairness

\* one topic with its packet path: the lifecycle with two subscriber sessions,
\* the PublishPacket callers, the dispatcher and the sessions' writers
PacketTopics == {"a"}
PacketSubs == <<"s1", "s2">>
PacketNext == Lifecycle(PacketTopics, PacketSubs) \/ Streams(PacketTopics) \/ Packets(PacketTopics)
PacketInit == Init /\ maxPublishers = 1
PacketSpec == PacketInit /\ [][PacketNext]_vars

\* a node list read from its other end
Reverse(l) == [k \in 1..Len(l) |-> l[Len(l) + 1 - k]]

\* the cluster and the proxy listeners of two nodes: node x is "n1" and names
\* itself first in its list; node y is "n2" and was given the same members in
\* the opposite order, or no cluster at all
ClusterInit ==
  /\ NewManager /\ maxPublishers = 1
  /\ NoAllocator /\ RestInit
  /\ hash \in [HashKeys -> Scores]
  /\ \E l \in {k \in NodeLists : k[1] = "n1"} :
       \E m \in {NilCluster, NewFromCSV(Reverse(l), "n2")} :
         cluster = [i \in Inst |-> IF i = "x" THEN NewFromCSV(l, "n1") ELSE m]
  /\ cret = NoCRet
  /\ scan = [i \in Inst |-> NoScan]
ClusterNext ==
  \/ \E i \in Inst, node \in NodeNames, d \in BOOLEAN : SetDraining(i, node, d)
  \/ \E i \in Inst, t \in HashTopics : OwnerCall(i, t)
ClusterSpec == ClusterInit /\ [][ClusterNext]_vars

\* one Cluster of two nodes on which SetDraining is called while callers such
\* as the two proxy listeners are inside Owner
RaceInit ==
  /\ NewManager /\ maxPublishers = 1
  /\ NoAllocator /\ RestInit
  /\ hash \in {h \in [HashKeys -> Scores] : h[<<"n3", "a">>] = 0}
  /\ cluster = [i \in Inst |-> IF i = "x" THEN NewFromCSV(<<"n1", "n2">>, "n1") ELSE NilCluster]
  /\ cret = NoCRet
  /\ scan = [i \in Inst |-> NoScan]
RaceNext ==
  \/ \E i \in Inst, node \in NodeNames, d \in BOOLEAN : SetDraining(i, node, d)
  \/ \E i \in Inst, t \in HashTopics : OwnerBegin(i, t)
  \/ \E i \in Inst : OwnerLoop(i)
  \/ \E i \in Inst : OwnerReturn(i)
  \/ \E i \in Inst : OwnerFatal(i)
RaceSpec == RaceInit /\ [][RaceNext]_vars

\* the proxy listeners of two nodes and the connections they accept: node x is
\* "n1" in a cluster of two, none or both of whose members were set draining;
\* node y has no cluster
ProxyInit ==
  /\ NewManager /\ maxPublishers = 1
  /\ NoAllocator /\ RestInit
  /\ hash \in {h \in [HashKeys -> {0, MaxScore}] : h[<<"n3", "a">>] = 0}
  /\ \E d \in {{}, {"n1", "n2"}} :
       cluster = [i \in Inst |-> IF i = "x"
                                 THEN [NewFromCSV(<<"n1", "n2">>, "n1") EXCEPT !.draining = d]
                                 ELSE NilCluster]
  /\ cret = NoCRet
  /\ scan = [i \in Inst |-> NoScan]
Splice(k) ==
  \/ \E g \in Copiers : Copy(k, g)
  \/ \E g \in Copiers : CopyEnd(k, g)
  \/ \E g \in Copiers : CloseTarget(k, g)
  \/ \E g \in Copiers : CloseClient(k, g)
Peers(k) ==
  \/ \E g \in Copiers : PeerSend(k, g)
  \/ \E g \in Copiers : PeerClose(k, g)
\* a whole request for topic "a" that one Read returns
Request == <<"Ra", "n", "n">>
ProxyArrivals == {[early |-> <<Request>>, late |-> <<>>]}
ProxyNext ==
  \/ \E i \in Inst, k \in Conns, dir \in Dirs, arr \in ProxyArrivals, lnOk, dialOk \in BOOLEAN :
       Accept(i, k, dir, arr, lnOk, dialOk)
  \/ \E k \in Conns : Splice(k)
  \/ \E k \in Conns : Peers(k)
ProxySpec == ProxyInit /\ [][ProxyNext]_vars

\* one connection with its two goroutines, each of which takes the steps it
\* can take in the end
SpliceConns == {"k1"}
SpliceNext ==
  \/ \E i \in Inst, k \in SpliceConns, dir \in Dirs, arr \in ProxyArrivals, lnOk, dialOk \in BOOLEAN :
       Accept(i, k, dir, arr, lnOk, dialOk)
  \/ \E k \in SpliceConns : Splice(k)
  \/ \E k \in SpliceConns : Peers(k)
SpliceFairness ==
  \A k \in SpliceConns, g \in Copiers :
    /\ WF_vars(Copy(k, g)) /\ WF_vars(CopyEnd(k, g))
    /\ WF_vars(CloseTarget(k, g)) /\ WF_vars(CloseClient(k, g))
SpliceSpec == ProxyInit /\ [][SpliceNext]_vars /\ SpliceFairness

\* one connection whose request (a request line, a header, the blank line and
\* bytes after it) reaches the proxy of node x or y cut into Reads in any way,
\* the deadline of the peek passing at any point; node x is "n1" in a cluster with
\* "n2", node y has no cluster
PeekArrivals == UNION {Arrivals(<<l, "n", "H", "n", "n", "B">>) : l \in ReqLines}
PeekInit ==
  /\ NewManager /\ maxPublishers = 1
  /\ NoAllocator /\ RestInit
  /\ hash \in {h \in [PeekKeys -> {0, MaxScore}] :
                 \A t \in PeekTopics : h[<<"n1", t>>] = 0 /\ h[<<"n3", t>>] = 0}
  /\ cluster = [i \in Inst |-> IF i = "x" THEN NewFromCSV(<<"n1", "n2">>, "n1") ELSE NilCluster]
  /\ cret = NoCRet
  /\ scan = [i \in Inst |-> NoScan]
PeekNext ==
  \/ \E k \in SpliceConns :
       /\ NextConn(k)
       /\ \E i \in Inst, dir \in Dirs, arr \in PeekArrivals, lnOk, dialOk \in BOOLEAN :
            Accept(i, k, dir, arr, lnOk, dialOk)
  \/ \E k \in SpliceConns : LocalRead(k)
  \/ \E k \in SpliceConns : Splice(k)
  \/ \E k \in SpliceConns : Peers(k)
PeekSpec == PeekInit /\ [][PeekNext]_vars

\* two nodes, x is "n1" and y is "n2", that were given the same node list and
\* hold the same draining flags; a client connects to either, and a connection
\* one of them forwards reaches the other's listener
ChainArrivals == {[early |-> << <<l, "n", "n">> >>, late |-> <<>>] : l \in ReqLines}
ChainInit ==
  /\ NewManager /\ maxPublishers = 1
  /\ NoAllocator /\ RestInit
  /\ hash \in {h \in [PeekKeys -> {0, MaxScore}] : \A t \in PeekTopics : h[<<"n3", t>>] = 0}
  /\ \E l \in {<<"n1", "n2">>, <<"n2", "n1">>}, d \in {{}, {"n1"}, {"n2"}} :
       cluster = [i \in Inst |-> [NewFromCSV(l, IF i = "x" THEN "n1" ELSE "n2")
                                    EXCEPT !.draining = d]]
  /\ cret = NoCRet
  /\ scan = [i \in Inst |-> NoScan]
ChainNext ==
  \/ \E i \in Inst, k \in SpliceConns, dir \in Dirs, arr \in ChainArrivals, lnOk, dialOk \in BOOLEAN :
       Accept(i, k, dir, arr, lnOk, dialOk)
  \/ \E j \in Inst, reads \in UNION {Splits(SubSeq(conn["k1"].toTarget, 1, n)) :
                                       n \in 0..Len(conn["k1"].toTarget)}, dialOk \in BOOLEAN :
       AcceptHop(j, "k2", "k1", reads, dialOk)
ChainSpec == ChainInit /\ [][ChainNext]_vars

\* one Allocator, made for any range NewAllocator accepts, among other processes
\* that bind and close UDP ports
AllocInit ==
  /\ NewManager /\ maxPublishers = 1
  /\ NoCluster /\ RestInit
  /\ \E start, end \in 0..MaxPort : alloc = NewAllocator(start, end)
  /\ alloc.present
  /\ reserved = [p \in Ports |-> 0]
  /\ socks = {}
  /\ extBound = {}
  /\ handles = {}
  /\ nextRes = 1
  /\ aret = NoARet
  /\ reservedPairs = 0
AllocNext ==
  \/ ReservePair
  \/ \E h \in handles : Release(h)
  \/ \E port \in Ports : GetConnCall(port)
  \/ \E p \in Ports : ExtBind(p)
  \/ \E p \in Ports : ExtClose(p)
AllocSpec == AllocInit /\ [][AllocNext]_vars

\* the RTSP router of node x ("n1") with its Manager, serving two sessions; the
\* topic is owned by n1, or by n2 when n2 has the higher score
RouterTopics == {"a"}
RouterInit ==
  /\ NewManager
  /\ NoAllocator /\ MetricsInit /\ NoConnections /\ NewServerHandler
  /\ hash \in {h \in [HashKeys -> {0, MaxScore}] : h[<<"n1", "a">>] = 0 /\ h[<<"n3", "a">>] = 0}
  /\ \E c \in {NilCluster, NewFromCSV(<<"n1", "n2">>, "n1")} :
       /\ cluster = [i \in Inst |-> IF i = "x" THEN c ELSE NilCluster]
       /\ ~c.present => hash = [k \in HashKeys |-> 0]
  /\ cret = NoCRet
  /\ scan = [i \in Inst |-> NoScan]
RouterNext ==
  \/ \E r \in RSessions, path \in RPaths : OnAnnounce(r, path)
  \/ \E r \in RSessions : OnAnnounceSetStream(r)
  \/ \E r \in RSessions : OnStore(r)
  \/ \E r \in RSessions, path \in RPaths : OnPlay(r, path)
  \/ \E r \in RSessions, path \in RPaths : OnDescribe(r, path)
  \/ \E r \in RSessions, path \in RPaths, transport \in Transports : OnSetup(r, path, transport)
  \/ \E r \in RSessions : OnSessionClose(r)
  \/ \E r \in RSessions : OnSessionCloseUnregister(r)
  \/ \E n \in RouterTopics : TimerFire(n)
  \/ \E n \in RouterTopics : TimerClose(n)
RouterSpec == RouterInit /\ [][RouterNext]_vars

\* ======================= the claims =======================

\* the publisher sessions admitted to topic n whose context is not cancelled
ActivePublishers(n) == {p \in Pubs : pubCtx[p] = n}

\* the step is a return of op on topic n
Returns(op, n) == ret'.op = op /\ ret'.name = n

\* C1, as stated: a register_publisher on a topic that already has a publisher
\* is rejected with TopicHasPublisher and does not replace the publisher.
C1_RejectedWithTopicHasPublisher ==
  [][\A n \in Names :
       (Returns("RegisterPublisher", n) /\ HasPublisher(n))
         => (ret'.val = "ErrTopicHasPublisher" /\ publisher' = publisher)]_vars

\* C1, amended: every topic has at most one active publisher, and a
\* register_publisher on a topic that already has a publisher is rejected, with
\* MaxPublishers when the publisher counter is at the cap and with
\* TopicHasPublisher otherwise, and leaves the publisher and its context alone.
C1_OnePublisherPerTopic ==
  /\ [](\A n \in Names : Cardinality(ActivePublishers(n)) <= 1)
  /\ [][\A n \in Names :
         (Returns("RegisterPublisher", n) /\ HasPublisher(n))
           => /\ ret'.val = (IF publisherCount >= maxPublishers
                              THEN "ErrMaxPublishers" ELSE "ErrTopicHasPublisher")
              /\ publisher' = publisher
              /\ pubCtx' = pubCtx]_vars

\* C1's case: a registration was just rejected with TopicHasPublisher on a topic
\* whose publisher is active
C1_Witness ==
  \E n \in Names :
    /\ ret = Ret("RegisterPublisher", n, "ErrTopicHasPublisher")
    /\ HasPublisher(n) /\ ActivePublishers(n) = {publisher[n]}

\* C2: the number of topics that hold a publisher is at most MaxPublishers.
C2_PublishersWithinCap ==
  Cardinality({n \in Names : HasPublisher(n)}) <= maxPublishers

\* C3: every topic has at most MaxSubscribersPerTopic subscribers.
C3_SubscribersWithinCap ==
  \A n \in Names : Cardinality(subscribers[n]) <= MaxSubscribersPerTopic

\* C3's case: a topic is at the cap and a further registration was just rejected
C3_Witness ==
  \E n \in Names :
    /\ Cardinality(subscribers[n]) = MaxSubscribersPerTopic
    /\ ret = Ret("RegisterSubscriber", n, "ErrTopicMaxSubscribers")

\* C4: register_publisher returns MaxPublishers whenever the publisher counter
\* is at the cap, returns TopicHasPublisher below the cap when the topic exists
\* and has a publisher, and a rejection leaves the topic map, the publisher
\* slots, the grace timers and the counter unchanged.
C4_RegisterPublisherRejections ==
  [][\A n \in Names :
       Returns("RegisterPublisher", n)
         => /\ publisherCount >= maxPublishers => ret'.val = "ErrMaxPublishers"
            /\ (publisherCount < maxPublishers /\ n \in topics /\ HasPublisher(n))
                 => ret'.val = "ErrTopicHasPublisher"
            /\ ret'.val # "ok"
                 => UNCHANGED <<topics, publisher, graceTimer, firing, publisherCount,
                                pubCtx, closed, subscribers>>]_vars

\* C4's case: with MaxPublishers = 1 and a publisher on one topic, a registration
\* on another topic was just rejected with MaxPublishers; the count is still 1
C4_Witness ==
  \E n \in Names, m \in Names :
    /\ ret = Ret("RegisterPublisher", n, "ErrMaxPublishers")
    /\ maxPublishers = 1 /\ Status.publisher_count = 1
    /\ n \notin topics /\ HasPublisher(m)

\* C5: register_subscriber returns NoActivePublisher when the topic is absent,
\* TopicMaxSubscribers when the topic is at the cap, and otherwise inserts the
\* new session; a rejection leaves the subscriber sets unchanged.
C5_RegisterSubscriberOutcomes ==
  [][\A n \in Names :
       Returns("RegisterSubscriber", n)
         => /\ n \notin topics => ret'.val = "ErrNoActivePublisher"
            /\ (n \in topics /\ Cardinality(subscribers[n]) >= MaxSubscribersPerTopic)
                 => ret'.val = "ErrTopicMaxSubscribers"
            /\ (n \in topics /\ Cardinality(subscribers[n]) < MaxSubscribersPerTopic)
                 => /\ ret'.val = "ok"
                    /\ \E s \in Subs \ subscribers[n] :
                         /\ subscribers' = [subscribers EXCEPT ![n] = @ \cup {s}]
                         /\ subCtx'[s] = n
            /\ ret'.val # "ok" => UNCHANGED <<subscribers, subCtx, queue>>]_vars

\* C5's case: a registration on an absent topic was just rejected with
\* NoActivePublisher while another topic exists
C5_Witness ==
  \E n \in Names :
    /\ ret = Ret("RegisterSubscriber", n, "ErrNoActivePublisher")
    /\ n \notin topics /\ topics # {}

\* C6: when a topic's publisher leaves and none is admitted again, the grace
\* timer's Close eventually leaves the topic closed, with no subscribers and
\* with every subscriber session of the topic cancelled.
C6_GraceExpiryClosesTopic ==
  \A n \in Names :
    (graceTimer[n] = "armed" /\ ~HasPublisher(n))
      ~> \/ HasPublisher(n)
         \/ /\ closed[n] /\ subscribers[n] = {}
            /\ \A s \in Subs : subCtx[s] # n

\* C7: outside Shutdown, no step closes a topic that has a publisher: a publisher
\* admitted during the grace period cancels the pending closure.
C7_NoCloseWithPublisher ==
  [][\A n \in Names :
       (HasPublisher(n) /\ ~closed[n] /\ ~shut.active) => ~closed'[n]]_vars

\* C8: a closed topic is absent from the manager: Status does not list it and
\* register_subscriber on its name returns NoActivePublisher.
C8_ClosedTopicRemoved ==
  \A n \in Names :
    closed[n] => /\ \A t \in Status.topics : t.name # n
                 /\ RegisterSubscriberResult(n) = "ErrNoActivePublisher"

\* C9: every packet PublishPacket accepted into a topic's inbound queue is still
\* in the queue, was taken by the dispatcher, or was counted in packets_dropped.
C9_DropsCounted ==
  \A n \in Names :
    accepted[n] = Len(inCh[n]) + Len(dispatched[n]) + packetsDropped

\* the position of x in seq, 0 when x is not in seq
Pos(seq, x) ==
  IF \E i \in DOMAIN seq : seq[i] = x
  THEN CHOOSE i \in DOMAIN seq : seq[i] = x
  ELSE 0

\* what subscriber s has seen and will see: the packet it dequeued last, then
\* its queue
Seen(s) == (IF lastOut[s] = NoPkt THEN <<>> ELSE <<lastOut[s]>>) \o queue[s]

\* C10: a subscriber receives the packets of its topic in the order the
\* dispatcher took them from the inbound queue: the packet it dequeued last and
\* the packets in its queue are dispatched packets, in dispatch order.
C10_OrderPreserved ==
  \A n \in Names : \A s \in subscribers[n] :
    /\ \A i \in DOMAIN Seen(s) : Pos(dispatched[n], Seen(s)[i]) > 0
    /\ \A i, j \in DOMAIN Seen(s) :
         i < j => Pos(dispatched[n], Seen(s)[i]) < Pos(dispatched[n], Seen(s)[j])

\* C10's case: three packets were dispatched; a subscriber has dequeued the
\* first and holds the second and the third, in that order
C10_Witness ==
  \E n \in Names : \E s \in subscribers[n] :
    /\ Len(dispatched[n]) = 3
    /\ Seen(s) = dispatched[n]
    /\ lastOut[s] = dispatched[n][1]

\* C11: a slow subscriber affects only itself.  The dispatcher never waits: each
\* of its selects can always be taken, whatever the queues hold; and a step of
\* the dispatcher on one subscriber changes no other subscriber's queue and,
\* when the dispatcher's first select finds room in that subscriber's queue,
\* appends the packet to it and drops nothing.
C11_SlowSubscriberIsolated ==
  /\ [](\A n \in Names :
          ~panicked =>
            /\ disp[n].pc = "send" => \A s \in disp[n].todo : ENABLED DispatcherSend(n, s)
            /\ disp[n].pc = "drop" => ENABLED DispatcherDrop(n)
            /\ disp[n].pc = "resend" => ENABLED DispatcherResend(n))
  /\ [][\A n \in Names :
         (RLocked(n) /\ disp'[n] # disp[n])
           => \E s \in disp[n].todo :
                /\ \A x \in Subs \ {s} : queue'[x] = queue[x]
                /\ (disp[n].pc = "send" /\ CanSend(queue[s], SubscriberQueueSize))
                     => queue'[s] = Append(queue[s], disp[n].pkt)]_vars

\* C11's case: three packets were dispatched to two subscribers; the one that
\* never dequeued lost the first packet, the other received all three in order
C11_Witness ==
  \E n \in Names : \E s1, s2 \in subscribers[n] :
    /\ Len(dispatched[n]) = 3 /\ disp[n].pc = "recv"
    /\ lastOut[s1] = NoPkt
    /\ queue[s1] = <<dispatched[n][2], dispatched[n][3]>>
    /\ lastOut[s2] = dispatched[n][2]
    /\ queue[s2] = <<dispatched[n][3]>>

\* the topic a pending PublishPacket call of caller c is for
CallName(c) == call[c].name

\* what C12 says of a step that is PublishPacket's lookup and first select
FirstSelectAsSpecified ==
  /\ ret'.op = "PublishPacket"
       => /\ ret'.val = "true"
               <=> /\ ret'.name \in topics
                   /\ inCh' = [inCh EXCEPT ![ret'.name] = Append(@, nextPkt)]
          /\ ret'.val = "false" => (ret'.name \notin topics /\ inCh' = inCh)
  /\ (ret'.op # "PublishPacket" /\ ~panicked')
       => \E c \in Callers :
            /\ call[c].pc = "idle" /\ call'[c].pc = "drop"
            /\ call'[c].pkt = nextPkt
            /\ ~CanSend(inCh[call'[c].name], PublisherQueueSize)
            /\ inCh' = inCh

\* what C12 says of caller c's drop-oldest select
DropSelectAsSpecified(c) ==
  /\ call'[c] = [call[c] EXCEPT !.pc = "retry"]
  /\ inCh' = [inCh EXCEPT ![CallName(c)] = IF @ = <<>> THEN @ ELSE Tail(@)]

\* what C12 says of caller c's retry select
RetrySelectAsSpecified(c) ==
  /\ call'[c] = CallIdle
  /\ ret'.op = "PublishPacket" /\ ret'.name = CallName(c)
  /\ ret'.val = "true"
       <=> inCh' = [inCh EXCEPT ![CallName(c)] = Append(@, call[c].pkt)]
  /\ ret'.val = "false"
       <=> (~CanSend(inCh[CallName(c)], PublisherQueueSize) /\ inCh' = inCh)

\* C12: PublishPacket never waits: its drop-oldest and retry selects can always
\* be taken.  On an open inbound channel with room the first select places the
\* packet and returns true; on a full one nothing is placed and the call goes on
\* to drop at most one element, the oldest, and to retry once; the call returns
\* true exactly when it placed the packet at the channel's tail, and the retry
\* returns false exactly when it found the channel full.
C12_PublishPacketNonBlocking ==
  /\ [](\A c \in Callers :
          ~panicked =>
            /\ call[c].pc = "drop" => ENABLED PublishPacketDrop(c)
            /\ call[c].pc = "retry" => ENABLED PublishPacketRetry(c))
  /\ [][nextPkt' # nextPkt => FirstSelectAsSpecified]_vars
  /\ [][\A c \in Callers :
          /\ (call[c].pc = "drop" /\ call'[c] # call[c]) => DropSelectAsSpecified(c)
          /\ (call[c].pc = "retry" /\ call'[c] # call[c]) => RetrySelectAsSpecified(c)]_vars

\* C12's case: a call found the channel full, dropped the oldest element, found
\* the channel full again at its retry (another caller had refilled it) and
\* returned false
C12_Witness ==
  \E n \in Names :
    /\ ret = Ret("PublishPacket", n, "false")
    /\ n \in topics /\ ~closed[n]
    /\ Len(inCh[n]) = PublisherQueueSize
    /\ \A c \in Callers : call[c] = CallIdle

\* the values Config.SubscriberQueueSize may hold, up to the size the router
\* gives its subscribers' queues; no code reads the field
ConfigSubscriberQueueSizes == 1..SubscriberQueueSize

\* C13: every topic's inbound channel holds at most PublisherQueueSize packets
\* and every subscriber's queue holds at most the configured
\* SubscriberQueueSize packets, whatever value is configured.
C13_QueuesWithinConfiguredSizes ==
  \A size \in ConfigSubscriberQueueSizes :
    /\ \A n \in Names : Len(inCh[n]) <= PublisherQueueSize
    /\ \A s \in Subs : Len(queue[s]) <= size

\* C14: Owner is a function of the topic and the set of non-draining members:
\* a call returns what the members, the draining flags and the topic determine,
\* and two Cluster instances with the same member set and the same draining
\* set return the same owner for every topic.
C14_OwnerDependsOnMemberSet ==
  /\ cret.op = "Owner" => cret.node = Owner(cluster[cret.inst], cret.topic)
  /\ \A i, j \in Inst : \A t \in HashTopics :
       (/\ cluster[i].present /\ cluster[j].present
        /\ Members(cluster[i]) = Members(cluster[j])
        /\ cluster[i].draining = cluster[j].draining)
         => Owner(cluster[i], t) = Owner(cluster[j], t)

\* C15: Owner never returns a draining node; it returns a member that is not
\* draining whenever there is one, and the empty name exactly when every member
\* is draining.
C15_OwnerNeverDraining ==
  /\ cret.op = "Owner" => cret.node \notin cluster[cret.inst].draining
  /\ \A i \in Inst : \A t \in HashTopics :
       cluster[i].present
         => /\ Owner(cluster[i], t) \notin cluster[i].draining
            /\ Owner(cluster[i], t) # NoNode => Owner(cluster[i], t) \in Members(cluster[i])
            /\ Owner(cluster[i], t) = NoNode
                 <=> Members(cluster[i]) \subseteq cluster[i].draining

\* C15's case: Owner was just called while a node with a higher score than the
\* returned one is draining
C15_Witness ==
  /\ cret.op = "Owner" /\ cret.node # NoNode
  /\ \E n \in cluster[cret.inst].draining :
       hash[<<n, cret.topic>>] > hash[<<cret.node, cret.topic>>]

\* the step is SetDraining(n, false) on instance i right after SetDraining(n, true)
\* on i, for a known node n
DrainUndrain(i) ==
  /\ cret.op = "SetDraining" /\ cret.inst = i /\ cret.val = "true"
  /\ cret.node \in Members(cluster[i])
  /\ cret'.op = "SetDraining" /\ cret'.inst = i /\ cret'.val = "false"
  /\ cret'.node = cret.node

\* the owner of t on instance i before the SetDraining call that cret records
OwnerBefore(i, t) == Owner([cluster[i] EXCEPT !.draining = cret.prev], t)

\* C16, as stated: for every known node n, SetDraining(n, true) followed by
\* SetDraining(n, false) leaves every topic's owner as it was before the pair.
C16_DrainUndrainRestores ==
  [][\A i \in Inst :
       DrainUndrain(i) => \A t \in HashTopics : Owner(cluster'[i], t) = OwnerBefore(i, t)]_vars

\* C16, amended: for every known node n that is not draining, SetDraining(n, true)
\* followed by SetDraining(n, false) leaves every topic's owner as it was before
\* the pair.
C16_DrainUndrainRestoresFromUndrained ==
  [][\A i \in Inst :
       (DrainUndrain(i) /\ cret.node \notin cret.prev)
         => \A t \in HashTopics : Owner(cluster'[i], t) = OwnerBefore(i, t)]_vars

\* C16's case: SetDraining(n, false) was just called on a draining node n, and n
\* is the owner again
C16_Witness ==
  /\ cret.op = "SetDraining" /\ cret.val = "false" /\ cret.node \in cret.prev
  /\ \E t \in HashTopics : Owner(cluster[cret.inst], t) = cret.node
  /\ Cardinality(Members(cluster[cret.inst])) > 1

\* C20: the proxy listener hands a connection to the local server exactly when
\* no cluster is configured, the topic has no owner, or the owner is the node
\* itself; every other connection is forwarded to its topic's owner, on the
\* owner's publisher port for a publisher and on its subscriber port for a
\* subscriber, or answered 503 when that dial fails.
C20_ProxyRouting ==
  cret.op = "Accept" =>
    LET c == cluster[cret.inst]
        owner == IF c.present THEN Owner(c, cret.topic) ELSE NoNode
    IN  /\ cret.val \in {"local", "forwarded", "503"}
        /\ cret.val = "local" <=> (~c.present \/ owner = NoNode \/ owner = c.self)
        /\ cret.val # "local"
             => /\ cret.node = owner
                /\ cret.port = IF cret.dir = "pub" THEN PubPort ELSE SubPort

\* C20's case: a subscriber's connection for a topic another node owns was
\* forwarded
C20_Witness ==
  /\ cret.op = "Accept" /\ cret.val = "forwarded" /\ cret.dir = "sub"
  /\ cret.node # cluster[cret.inst].self /\ cret.port = SubPort

\* the ports the Allocator holds
Held == {p \in Ports : reserved[p] # 0}

\* C17: every base port ReservePair returns is even, and for every even port p
\* the Allocator holds p exactly when it holds p + 1.
C17_EvenPairs ==
  /\ (aret.op = "ReservePair" /\ aret.val = "ok") => aret.port % 2 = 0
  /\ \A h \in handles : h.base % 2 = 0
  /\ \A p \in Ports : (p % 2 = 0 /\ p + 1 \in Ports) => (p \in Held <=> p + 1 \in Held)
  /\ \A p \in Held : p % 2 = 0 \/ p - 1 \in Held

\* C17's case: a pair was released while another pair is still held
C17_Witness ==
  /\ aret.op = "release"
  /\ aret.port \notin Held /\ aret.port + 1 \notin Held
  /\ \E p \in Held : p % 2 = 0 /\ p + 1 \in Held

\* the even ports of [start, end] that are not reserved and can be bound
\* together with the next port
Available ==
  {p \in alloc.start..alloc.end :
     p % 2 = 0 /\ reserved[p] = 0 /\ CanBind(p, socks) /\ CanBind(p + 1, socks)}

ReservePairReturns == aret' # aret /\ aret'.op = "ReservePair"

\* C18: ReservePair fails with "no available ports" exactly when no even port p of
\* [start, end] is unreserved and bindable on p and p + 1; a failed call leaves
\* the reserved map as it was and no socket open that the map does not hold.
C18_FailsOnlyWhenExhausted ==
  /\ [](socks = Held)
  /\ [][ReservePairReturns
          => /\ aret'.val = NoAvailablePorts <=> Available = {}
             /\ aret'.val = NoAvailablePorts => reserved' = reserved /\ socks' = socks
             /\ aret'.val # NoAvailablePorts => aret'.val = "ok" /\ aret'.port \in Available]_vars

\* C18's case: ReservePair failed after it bound a port whose partner was taken
C18_Witness ==
  /\ aret.op = "ReservePair" /\ aret.val = NoAvailablePorts
  /\ \E p \in alloc.start..alloc.end :
       p % 2 = 0 /\ reserved[p] = 0 /\ p \notin extBound /\ p + 1 \in extBound

\* C19: from a successful ReservePair that returned base p until its release
\* handle is invoked, GetConn(p) and GetConn(p + 1) return the sockets of that
\* reservation; once the handle was invoked both sockets are closed, GetConn
\* returns none for both, and the pair can be reserved again.
C19_HeldUntilReleased ==
  /\ \A h \in handles :
       ~h.invoked => /\ GetConn(h.base) = h.res /\ GetConn(h.base + 1) = h.res
                     /\ {h.base, h.base + 1} \subseteq socks
  /\ aret.op = "release"
       => /\ GetConn(aret.port) = 0 /\ GetConn(aret.port + 1) = 0
          /\ socks \cap {aret.port, aret.port + 1} = {}

\* the step removes the publisher of topic n (only UnregisterPublisher does)
PublisherRemoved(n) == publisher[n] # None /\ publisher'[n] = None

\* C25: a successful RegisterPublisher(n, p) raises the publisher counter by one
\* and an UnregisterPublisher(n) that follows it lowers it by one, so the
\* counter and the active_publishers gauge are back at their values from before
\* the registration; Status then reports has_publisher = false for n, whose
\* entry is still in the map.
C25_RegisterUnregisterRestoresCount ==
  /\ [][\A n \in Names :
          ret' = Ret("RegisterPublisher", n, "ok")
            => /\ publisherCount' = publisherCount + 1
               /\ activePublishers' = activePublishers]_vars
  /\ [][\A n \in Names :
          (ret = Ret("RegisterPublisher", n, "ok") /\ PublisherRemoved(n))
            => /\ publisherCount' = publisherCount - 1
               /\ Status'.publisher_count = publisherCount - 1
               /\ activePublishers' = activePublishers
               /\ n \in topics'
               /\ \A ts \in Status'.topics : ts.name = n => ~ts.has_publisher]_vars

\* C25's case: a publisher was registered on a topic and unregistered again
\* while another topic keeps its publisher
C25_Witness ==
  \E n, m \in Names :
    /\ n # m /\ n \in topics /\ ~HasPublisher(n) /\ graceTimer[n] = "armed"
    /\ HasPublisher(m) /\ publisherCount = 1

\* Manager.Shutdown returns in this step
ShutdownReturns == shut.active /\ ~shut'.active

\* C26: when Shutdown returns, every topic of the manager is closed and the
\* cancellation handle of every publisher and subscriber session registered on
\* a topic has been fired, whatever registrations, unregistrations and timer
\* firings came before.
C26_ShutdownCancelsEverySession ==
  [][ShutdownReturns
       => \A n \in topics' :
            /\ closed'[n]
            /\ HasPublisher(n)' => pubCtx'[publisher'[n]] = None
            /\ \A s \in subscribers'[n] : subCtx'[s] = None]_vars

\* C27: no operation panics: PublishPacket never sends on a closed inbound
\* channel, it returns false when the topic is missing or closed, in every
\* interleaving with the grace timer, Close, Shutdown and a later
\* RegisterPublisher on the same name.
C27_NoPanic ==
  /\ ~panicked
  /\ \A n \in Names : ret = Ret("PublishPacket", n, "true") => (n \in topics /\ ~closed[n])

\* the subscribers registered on the topics of the manager
RegisteredSubscribers == UNION {{<<n, s>> : s \in subscribers[n]} : n \in topics}

\* C28: the active_subscribers gauge equals the number of subscribers registered
\* across all topics: RegisterSubscriber raises it by one, UnregisterSubscriber
\* lowers it by one, and a topic close lowers it by the number of subscribers
\* the close removes.
C28_ActiveSubscribersGauge == activeSubscribers = Cardinality(RegisteredSubscribers)

\* the step runs Topic.Close on topic n: the grace timer's goroutine or Shutdown
CloseRuns(n) ==
  \/ firing[n] /\ ~firing'[n]
  \/ n \in shut.todo /\ n \notin shut'.todo

\* C30: Topic.Close is idempotent: a Close of a topic that is already closed
\* (the grace timer and Shutdown in either order) changes nothing of the topic
\* and fires no cancellation handle, and the inbound channel, once closed, is
\* never closed again.
C30_CloseIdempotent ==
  /\ [][\A n \in Names :
          (closed[n] /\ CloseRuns(n))
            => UNCHANGED <<topics, closed, publisher, stream, subscribers, inCh,
                           pubCtx, subCtx, queue, lastOut, panicked>>]_vars
  /\ [][\A n \in Names : closed[n] => closed'[n]]_vars

\* C30's case: the grace timer's goroutine and Shutdown have both run Close on
\* a topic
C30_Witness ==
  \E n \in topics :
    /\ closed[n] /\ graceTimer[n] = "fired" /\ ~firing[n]
    /\ shut.active /\ n \notin shut.todo

\* the topic name of a request path as the specification defines it: the path
\* without its one leading "/", valid when it is one or more of [A-Za-z0-9_-]
SpecName(path) == IF path # <<>> /\ path[1] = "/" THEN SubSeq(path, 2, Len(path)) ELSE path
SpecValid(path) ==
  /\ Len(SpecName(path)) >= 1
  /\ \A i \in 1..Len(SpecName(path)) : SpecName(path)[i] \in NameChars

\* the Manager's registrations and the router's maps stay as they are
NothingRegistered ==
  UNCHANGED <<topics, publisher, publisherCount, stream, subscribers, closed, graceTimer,
              pubCtx, subCtx, sessTopic, sessIsPub>>

\* the step returns a response to a request of kind op
Responds(op) == rret' # rret /\ rret'.op = op

\* C23: the router maps failures to status codes without changing state:
\* ANNOUNCE with an invalid topic name or a rejected RegisterPublisher returns
\* 400, stores no session entry and registers nothing (and only then is the
\* registration refused); PLAY with a rejected RegisterSubscriber returns 503 and
\* stores no session entry; DESCRIBE and SETUP on a topic without a stream
\* return 404.
C23_FailuresMapToStatusCodes ==
  /\ [][(Responds("Announce") /\ rret'.code # StatusOK)
          => /\ rret'.code = StatusBadRequest
             /\ NothingRegistered
             /\ ~SpecValid(rret'.path) \/ RegisterPublisherResult(Str(SpecName(rret'.path))) # "ok"]_vars
  /\ [][(Responds("Announce") /\ ~SpecValid(rret'.path)) => rret'.code = StatusBadRequest]_vars
  /\ [][\A r \in RSessions :
          (rpc[r].pc = "idle" /\ rpc'[r].pc = "setStream")
            => /\ SpecValid(rpc'[r].path)
               /\ RegisterPublisherResult(Str(SpecName(rpc'[r].path))) = "ok"]_vars
  /\ [][(Responds("Play") /\ rret'.code # StatusOK)
          => /\ rret'.code = StatusServiceUnavailable
             /\ NothingRegistered
             /\ RegisterSubscriberResult(Str(SpecName(rret'.path))) # "ok"]_vars
  /\ [][\A r \in RSessions :
          (rpc[r].pc = "idle" /\ rpc'[r].pc = "store")
            => RegisterSubscriberResult(Str(SpecName(rpc'[r].path))) = "ok"]_vars
  /\ [][(Responds("Describe") \/ Responds("Setup"))
          => /\ ~GetTopicStream(Str(SpecName(rret'.path))) => rret'.code = StatusNotFound
             /\ NothingRegistered]_vars

\* C23's case: an ANNOUNCE was answered 400 because RegisterPublisher refused
\* it, while another session is the topic's publisher
C23_Witness ==
  /\ rret.op = "Announce" /\ rret.code = StatusBadRequest /\ rret.call = "RegisterPublisher"
  /\ \E r \in DOMAIN sessTopic : sessIsPub[r] /\ sessTopic[r] = Str(SpecName(rret.path))

StatusUnsupportedTransport == 461

\* the topic is owned by another node of the cluster
RemoteOwned(n) ==
  /\ n \in HashTopics /\ cluster["x"].present
  /\ Owner(cluster["x"], n) \notin {NoNode, cluster["x"].self}

\* C24: a SETUP that negotiates UDP for a topic another node owns is answered
\* 461 Unsupported Transport and gets no stream; a UDP SETUP succeeds only for
\* a topic the local node owns.
C24_UdpSetupOnRemoteTopicIs461 ==
  (rret.op = "Setup" /\ rret.transport = "udp" /\ RemoteOwned(TopicName(rret.path)))
    => rret.code = StatusUnsupportedTransport

\* C29: when a session closes, the router first removes the session's entries
\* from both maps and then calls UnregisterPublisher(topic) if the session was
\* a publisher, UnregisterSubscriber(topic, session id) if it was a subscriber;
\* a session without an entry causes no call of the Manager, and one close
\* makes at most one call.
C29_SessionCloseUnregisters ==
  /\ [][\A r \in RSessions :
          (rpc[r].pc = "idle" /\ rpc'[r].pc = "unregister")
            => /\ r \in DOMAIN sessTopic /\ r \in DOMAIN sessIsPub
               /\ r \notin DOMAIN sessTopic' /\ r \notin DOMAIN sessIsPub'
               /\ rpc'[r].name = sessTopic[r] /\ rpc'[r].isPub = sessIsPub[r]
               /\ UNCHANGED topicVars]_vars
  /\ [][\A r \in RSessions :
          (rpc[r].pc = "unregister" /\ rpc'[r].pc = "idle")
            => /\ rret'.op = "SessionClose"
               /\ UNCHANGED <<sessTopic, sessIsPub>>
               /\ IF rpc[r].isPub
                  THEN /\ rret'.call = "UnregisterPublisher"
                       /\ publisher'[rpc[r].name] = None
                       /\ UNCHANGED <<subscribers, subCtx>>
                  ELSE /\ rret'.call = "UnregisterSubscriber"
                       /\ SubId(r) \notin subscribers'[rpc[r].name]
                       /\ UNCHANGED <<publisher, publisherCount, pubCtx, graceTimer>>]_vars
  /\ [][(Responds("SessionClose") /\ UNCHANGED rpc)
          => /\ rret'.call = ""
             /\ UNCHANGED <<topicVars, sessTopic, sessIsPub>>]_vars
  /\ [](\A r \in RSessions : rpc[r].pc = "unregister" => r \notin DOMAIN sessTopic)

\* C29's case: a publishing session closed and UnregisterPublisher armed the
\* topic's grace timer
C29_Witness ==
  /\ rret.op = "SessionClose" /\ rret.call = "UnregisterPublisher"
  /\ graceTimer["a"] = "armed" /\ ~HasPublisher("a")

\* the step is the round of Accept that took connection k
Accepts(k) == conn[k].st = "none" /\ conn'[k].st # "none"

\* C21: when the dial to the owner fails, Accept counts one forward_failed,
\* writes the 503 response to the client and closes the client's connection;
\* it dials once, opens no target connection, starts no copying and does not
\* hand the connection to the local server, then or later; it returns no error
\* and takes the next connection.
C21_DialFailure ==
  /\ [][\A k \in Conns :
          (Accepts(k) /\ cret'.val = "503")
            => /\ forwardFailed' = forwardFailed + 1
               /\ forwardedConnections' = forwardedConnections
               /\ conn'[k].toClient = <<Msg503>>
               /\ conn'[k].nconn = "closed"
               /\ conn'[k].dials = 1
               /\ conn'[k].target = "none" /\ conn'[k].toTarget = <<>>
               /\ conn'[k].up = "none" /\ conn'[k].down = "none"
               /\ conn'[k].st = "rejected"
               /\ cret'.op = "Accept"]_vars
  /\ [][(forwardFailed' # forwardFailed) => (\E k \in Conns : Accepts(k) /\ cret'.val = "503")]_vars
  /\ [][\A k \in Conns : conn[k].st = "rejected" => conn'[k] = conn[k]]_vars
  /\ [](\A k \in Conns :
          (conn["k1"].st = "rejected" /\ conn["k2"].st = "none")
            => ENABLED (\E dir \in Dirs, arr \in ProxyArrivals : Accept("x", "k2", dir, arr, TRUE, TRUE)))

\* C21's case: the first connection was answered 503 and the listener has
\* since forwarded the second one
C21_Witness ==
  /\ conn["k1"].st = "rejected" /\ conn["k1"].toClient = <<Msg503>>
  /\ conn["k2"].st = "forwarded"
  /\ forwardFailed = 1 /\ forwardedConnections = 1

\* the connection and both of its goroutines have come to their end
BothClosed(k) ==
  /\ conn[k].nconn = "closed" /\ conn[k].target = "closed"
  /\ conn[k].up = "done" /\ conn[k].down = "done"

C35_CounterMatchesSlots ==
  Status.publisher_count = Cardinality({n \in topics : HasPublisher(n)})

\* the publishers the Manager holds
OccupiedSlots == {n \in topics : HasPublisher(n)}

\* C31: RegisterPublisher and UnregisterPublisher take effect atomically: a
\* RegisterPublisher on a topic whose publisher was unregistered succeeds when
\* the Manager holds fewer than MaxPublishers publishers and fails otherwise;
\* it returns ErrTopicHasPublisher only when a publisher is registered on the
\* topic; and in no state between two calls do the publisher slots and the
\* publisher counter disagree.
C31_RegistrationLinearizable ==
  /\ [][\A n \in Names :
          (Returns("RegisterPublisher", n) /\ ret' # ret)
            => /\ ret'.val = "ErrTopicHasPublisher" => HasPublisher(n)
               /\ ~HasPublisher(n)
                    => (ret'.val = "ok" <=> Cardinality(OccupiedSlots) < maxPublishers)]_vars
  /\ [](publisherCount = Cardinality(OccupiedSlots))

\* the node names in lexicographic order
NamesInOrder == <<"n1", "n2", "n3">>
NameBefore(a, b) ==
  \E i, j \in DOMAIN NamesInOrder : NamesInOrder[i] = a /\ NamesInOrder[j] = b /\ i < j

\* the non-draining members with the maximum score for topic t
TopScorers(c, t) ==
  {n \in Members(c) \ c.draining :
     \A m \in Members(c) \ c.draining : hash[<<m, t>>] <= hash[<<n, t>>]}

\* C32: Owner(t) returns the non-draining node with the maximum score and, of
\* several nodes with that score, the one whose name is lexicographically
\* smallest, whatever the order of the configured list; it returns no node
\* when every node is draining.
C32_OwnerMaxScoreLexTie ==
  cret.op = "Owner" =>
    LET top == TopScorers(cluster[cret.inst], cret.topic)
    IN IF top = {} THEN cret.node = NoNode
       ELSE /\ cret.node \in top
            /\ \A m \in top \ {cret.node} : NameBefore(cret.node, m)

\* C38: every port the Allocator has bound and stored lies in the configured
\* range: start <= p and p <= end for every port of the reserved map and every
\* socket the process holds, for every range NewAllocator accepts.
C38_PortsWithinRange ==
  /\ \A p \in Held : alloc.start <= p /\ p <= alloc.end
  /\ \A p \in socks : alloc.start <= p /\ p <= alloc.end

\* C39: a release handle releases only the reservation it was issued for: the
\* ports whose map entry it removes and whose sockets it closes belonged to its
\* own reservation, so a second invocation changes nothing, also when the base
\* port was reserved again in between.
C39_ReleaseOnlyOwnReservation ==
  [][aret'.op = "release"
       => \A p \in Ports :
            /\ reserved'[p] # reserved[p] => (reserved[p] = aret'.res /\ reserved'[p] = 0)
            /\ (p \in socks /\ p \notin socks') => reserved[p] = aret'.res]_vars

\* C40: the allocator_reserved_pairs gauge equals the number of pairs the
\* Allocator holds.
C40_GaugeCountsReservedPairs ==
  reservedPairs = Cardinality({p \in Held : p % 2 = 0})

\* C34: the draining flags are protected when they are written: SetDraining
\* never writes the draining map of a Cluster while a call of Owner is reading
\* it, so no Owner call continues after a racing write and the runtime never
\* ends the process for a concurrent map read and map write.
C34_DrainingFlagsProtected ==
  \A i \in Inst : ~scan[i].raced /\ scan[i].pc # "fatal"
\* no request target can be parsed from the request line: it has fewer than
\* two fields, or its rtsp:// URL is malformed
InvalidLine(line) ==
  \/ Len(SplitN(line)) < 2
  \/ HasPrefix(SplitN(line)[2]) /\ UrlParse(SplitN(line)[2]).err

\* C33: a client's connection whose first request line is invalid is handed
\* to the local RTSP server: it is never forwarded to another node and never
\* answered by the proxy itself.
C33_InvalidLineGoesLocal ==
  \A k \in Conns :
    (conn[k].st # "none" /\ ~conn[k].hop /\ InvalidLine(Head(conn[k].sent)))
      => conn[k].st = "local"

\* the bytes the consumer has been given, and those that still wait for it
Delivered(k) == IF conn[k].st = "local" THEN conn[k].got ELSE conn[k].toTarget
Waiting(k) == IF conn[k].st = "local" THEN conn[k].buf \o conn[k].cin ELSE conn[k].cin

\* C36: as long as a connection is served (the local server reads it, or the
\* goroutine that copies the client's bytes to the owner runs), the bytes
\* given to the consumer followed by the bytes that wait for it are the bytes
\* the client sent, in order, none lost and none twice, however the bytes were
\* cut into reads and wherever the deadline of the peek fell.
C36_PeekPreservesStream ==
  \A k \in Conns :
    \/ conn[k].st = "local" /\ conn[k].nconn = "open"
    \/ conn[k].st = "forwarded" /\ conn[k].up = "copy"
    => Delivered(k) \o Waiting(k) = conn[k].sent

\* C37: when both nodes hold the same node list and the same draining flags,
\* the listener that receives a connection forwarded by the other node hands
\* it to its local server: it dials no node and answers no 503 for it, so no
\* connection is forwarded twice.
C37_ForwardedAtMostOnce ==
  \A k \in Conns :
    (conn[k].hop /\ conn[k].st # "none")
      => /\ conn[k].st = "local" /\ conn[k].dials = 0
         /\ cret.op = "Accept" /\ cret.val = "local"
         /\ cret.node \in {NoNode, cluster[cret.inst].self}

\* C37's case: node x forwarded a client's connection to n2, and node y, which
\* is n2, took it and resolved itself as the owner of the topic
C37_Witness ==
  /\ conn["k1"].st = "forwarded" /\ ~conn["k1"].hop
  /\ conn["k2"].hop /\ conn["k2"].st = "local" /\ conn["k2"].buf = conn["k1"].toTarget
  /\ cret.inst = "y" /\ cret.node = "n2" /\ cret.topic = "a"

====
